---- MODULE Spec2Model ----
(***************************************************************************)
(* ECPlacas 2.0: the complete SRI + owner consultation of                  *)
(* src/backend/app copy 2.py.  One consultation session is followed from   *)
(* the HTTP request that starts it, through the thread that runs the       *)
(* pipeline (owner, base, rubros, components, payments, IACV, analysis),   *)
(* to the entry the thread leaves in active_consultations.                 *)
(*                                                                         *)
(* Amounts are whole currency units (Python floats holding integers, so    *)
(* the sums are exact).  The score is kept in units of 1/Escala so that    *)
(* the float  abs(total_prescripciones) / 100  is represented exactly.     *)
(* Text fields that the code only searches for keywords are kept as the    *)
(* set of keywords they contain.  A plate is a sequence of characters.     *)
(***************************************************************************)
EXTENDS Integers, Sequences, FiniteSets, TLC

VARIABLES
    active_consultations,  \* VehicleConsultantSRI.active_consultations: session id -> entry
    pc,                    \* position of the session's thread
    placa,                 \* the plate of the request, as received
    vehicle_data,          \* the VehicleDataSRI being built by the thread
    codigo_vehiculo,       \* local of consultar_vehiculo_completo
    idx,                   \* loop position in the rubro / payment loops
    acumulado,             \* loop locals (todos_componentes; detalles_pagos)
    response,              \* the response to the thread's latest request
    requests,              \* outbound HTTP requests issued so far, in order
    cedula,                \* the national id of the request, as received
    http,                  \* the latest reply of the Flask application to a caller
    reloj,                 \* time.time() / datetime.now(), in milliseconds
    argumentos,            \* arguments of the pure function under study
    resultados,            \* its results
    last_request_time_sri, \* VehicleConsultantSRI._last_request_time
    last_request_time,     \* VehicleScraper.last_request_time, by api name
    llamadas,              \* the outbound calls one caller has started, in order
    envio,                 \* one session.get / session.post and its attempts
    cache,                 \* VehicleCache.cache: key -> entry
    access_times,          \* VehicleCache.access_times: key -> time of the last access
    ultimo_set,            \* the latest set(placa, api_name, data): its arguments and time
    lectura,               \* the get(placa, api_name) just made: its arguments and result
    hilos,                 \* locals of the threads running at once, by thread
    _validation_cache      \* PlateValidator._validation_cache: the memo of normalize_plate, by key

\* the consultation session and its thread
vars_pipeline == <<active_consultations, pc, placa, vehicle_data, codigo_vehiculo, idx,
                   acumulado, response, requests, cedula, http>>

\* a pure function applied to drawn arguments
vars_fn == <<argumentos, resultados>>

\* the rate limiters and the calls that went through them
vars_limitador == <<last_request_time_sri, last_request_time, llamadas>>

\* the response cache and what its caller did last; the memo of the plates
vars_cache == <<cache, access_times, ultimo_set, lectura, _validation_cache>>

\* the HTTP client side: rate limiters, the request being sent, the cache
vars_clientes == <<vars_limitador, envio, vars_cache, hilos>>

\* what the steps of the consultation leave alone
fuera_pipeline == <<reloj, vars_fn, vars_clientes>>

vars == <<vars_pipeline, reloj, vars_fn, vars_clientes>>

----------------------------------------------------------------------------
(* Bounds of the model and constants of the program *)

MaxRubros == 2
MaxComponentes == 1
MaxPagos == 2
MaxCuotas == 2

LimitePagos == 50
Escala == 100
AnoActual == 2026

SessionId == "ecplacas_completo_1"

----------------------------------------------------------------------------
(* Generic helpers *)

RECURSIVE Suma(_)
Suma(ns) == IF ns = <<>> THEN 0 ELSE Head(ns) + Suma(Tail(ns))

Min(a, b) == IF a < b THEN a ELSE b
Max(a, b) == IF a > b THEN a ELSE b
Abs(a) == IF a < 0 THEN -a ELSE a

RECURSIVE Filtrar(_, _, _)
Filtrar(pool, I, k) ==
    IF k > Len(pool) THEN <<>>
    ELSE (IF k \in I THEN <<pool[k]>> ELSE <<>>) \o Filtrar(pool, I, k + 1)

\* the lists of at most n elements of pool, in pool order, without repetition
SubListas(pool, n) ==
    { Filtrar(pool, I, 1) : I \in { J \in SUBSET (1..Len(pool)) : Cardinality(J) <= n } }

----------------------------------------------------------------------------
(* PlateValidator *)

LetrasMayus == {"A", "B", "C", "P", "X"}
LetrasMinus == {"a", "b", "c"}
Digitos == {"0", "1", "2", "3", "4"}

Mayus(c) ==
    CASE c = "a" -> "A"
      [] c = "b" -> "B"
      [] c = "c" -> "C"
      [] OTHER -> c

Upper(s) == [i \in DOMAIN s |-> Mayus(s[i])]

\* re.sub(r'[^A-Z0-9]', '', placa.upper())
PlacaClean(s) == SelectSeq(Upper(s), LAMBDA c : c \in LetrasMayus \cup Digitos)

\* re.match(r'^([A-Z]{2,3})(\d{3})$', placa_clean): the number of letters, 0 if no match
MatchTresDigitos(s) ==
    IF \E k \in {2, 3} :
          /\ Len(s) = k + 3
          /\ \A i \in 1..k : s[i] \in LetrasMayus
          /\ \A i \in (k + 1)..(k + 3) : s[i] \in Digitos
    THEN Len(s) - 3
    ELSE 0

\* a normalization whose pattern reads \d{3,4}: a zero is also put before four digits
normalize_cuatro_digitos(p) ==
    IF p = <<>> THEN <<p, p, FALSE>>
    ELSE LET clean == PlacaClean(p)
             k == IF \E j \in {2, 3} : \E d \in {3, 4} :
                        /\ Len(clean) = j + d
                        /\ \A i \in 1..j : clean[i] \in LetrasMayus
                        /\ \A i \in (j + 1)..(j + d) : clean[i] \in Digitos
                  THEN Cardinality({ i \in 1..3 : clean[i] \in LetrasMayus })
                  ELSE 0
         IN IF k > 0
            THEN <<clean, SubSeq(clean, 1, k) \o <<"0">> \o SubSeq(clean, k + 1, Len(clean)), TRUE>>
            ELSE <<clean, clean, FALSE>>

\* a normalization that removes nothing from the plate
normalize_sin_limpiar(p) ==
    IF p = <<>> THEN <<p, p, FALSE>>
    ELSE LET clean == Upper(p)
             k == MatchTresDigitos(clean)
         IN IF k > 0
            THEN <<clean, SubSeq(clean, 1, k) \o <<"0">> \o SubSeq(clean, k + 1, Len(clean)), TRUE>>
            ELSE <<clean, clean, FALSE>>

\* a normalization that only cleans the plate
normalize_sin_cero(p) ==
    IF p = <<>> THEN <<p, p, FALSE>> ELSE <<PlacaClean(p), PlacaClean(p), FALSE>>

normalize_plate(p) ==
    IF p = <<>> THEN <<p, p, FALSE>>
    ELSE LET clean == PlacaClean(p)
             k == MatchTresDigitos(clean)
         IN IF k > 0
            THEN <<clean, SubSeq(clean, 1, k) \o <<"0">> \o SubSeq(clean, k + 1, Len(clean)), TRUE>>
            ELSE <<clean, clean, FALSE>>

\* plates that pass validate_plate_format
PlacasValidas == { <<"A", "B", "C", "1", "2", "3">>, <<"P", "B", "X", "1", "2", "3", "4">> }

\* plates that do not: empty, too short, digits first, a letter among the digits
PlacasInvalidas ==
    { <<>>,
      <<"A", "B", "1", "2">>,
      <<"1", "2", "3", "A", "B", "C">>,
      <<"A", "B", "C", "1", "2", "X">> }

Placas == PlacasValidas \cup PlacasInvalidas

\* validate_plate_format: 6 to 8 characters, [A-Z]{2,3}\d{3,4} with an optional hyphen
MatchFormato(s, guion) ==
    \E k \in {2, 3} : \E d \in {3, 4} :
        LET g == IF guion THEN 1 ELSE 0
        IN /\ Len(s) = k + g + d
           /\ \A i \in 1..k : s[i] \in LetrasMayus
           /\ guion => s[k + 1] = "-"
           /\ \A i \in (k + g + 1)..(k + g + d) : s[i] \in Digitos

validate_plate_format(p) ==
    IF p = <<>> \/ Len(p) < 6 \/ Len(p) > 8 THEN FALSE
    ELSE MatchFormato(Upper(p), FALSE) \/ MatchFormato(Upper(p), TRUE)

----------------------------------------------------------------------------
(* CedulaValidator.  A national id is a sequence of one-character strings. *)

DigitosDecimales == {"0", "1", "2", "3", "4", "5", "6", "7", "8", "9"}

\* int(d) of a decimal digit
ValorDigito(d) ==
    CASE d = "0" -> 0 [] d = "1" -> 1 [] d = "2" -> 2 [] d = "3" -> 3 [] d = "4" -> 4
      [] d = "5" -> 5 [] d = "6" -> 6 [] d = "7" -> 7 [] d = "8" -> 8 [] d = "9" -> 9

\* PROVINCE_CODES: '01' to '24', and '30'
PROVINCE_CODES == (1..24) \cup {30}

coefficients == <<2, 1, 2, 1, 2, 1, 2, 1, 2>>

\* sum over the first nine digits of digit * coefficient, minus 9 when above 9
RECURSIVE TotalCedula(_, _)
TotalCedula(digits, i) ==
    IF i = 0 THEN 0
    ELSE LET product == digits[i] * coefficients[i]
         IN (IF product > 9 THEN product - 9 ELSE product) + TotalCedula(digits, i - 1)

\* the validation without the check digit
validate_sin_verificador(c) ==
    IF Len(c) # 10 \/ \E i \in 1..Len(c) : c[i] \notin DigitosDecimales THEN FALSE
    ELSE LET digits == [i \in 1..10 |-> ValorDigito(c[i])]
         IN 10 * digits[1] + digits[2] \in PROVINCE_CODES /\ digits[3] < 6

validate_ecuadorian_id(c) ==
    IF Len(c) # 10 \/ \E i \in 1..Len(c) : c[i] \notin DigitosDecimales THEN FALSE
    ELSE LET digits == [i \in 1..10 |-> ValorDigito(c[i])]
             province_code == 10 * digits[1] + digits[2]
             check_digit == (10 - (TotalCedula(digits, 9) % 10)) % 10
         IN /\ province_code \in PROVINCE_CODES
            /\ digits[3] < 6
            /\ check_digit = digits[10]

CedulaValida == <<"1", "7", "1", "0", "0", "3", "4", "0", "6", "5">>

\* ids that do not validate: absent, nine digits, a letter, province 99,
\* third digit 7, wrong check digit
CedulasInvalidas ==
    { <<>>,
      <<"1", "7", "1", "0", "0", "3", "4", "0", "6">>,
      <<"1", "7", "1", "0", "0", "3", "4", "0", "6", "X">>,
      <<"9", "9", "1", "0", "0", "3", "4", "0", "6", "5">>,
      <<"1", "7", "7", "0", "0", "3", "4", "0", "6", "5">>,
      <<"1", "7", "1", "0", "0", "3", "4", "0", "6", "6">> }

Cedulas == {CedulaValida} \cup CedulasInvalidas

----------------------------------------------------------------------------
(* Upstream responses.  A response is <<body>>, or <<>> for any failure of *)
(* the request: a connection error, a timeout, a non-2xx status after the  *)
(* adapter's retries (raise_for_status), or a body that is not JSON.       *)

Falla == <<>>
Exito(b) == <<b>>
Ok(r) == r # <<>>
Body(r) == r[1]

\* primary owner API: data.name may be absent
OwnerPrimaryResponses ==
    { Falla, Exito([name |-> ""]), Exito([name |-> "JUAN PEREZ"]) }

\* backup owner API: the propietario object may be absent
OwnerBackupResponses ==
    { Falla, Exito([propietario |-> FALSE, nombre |-> ""]),
      Exito([propietario |-> TRUE, nombre |-> "ANA MORA"]) }

\* base vehicle: a body with or without codigoVehiculo
BaseResponses ==
    { Falla,
      Exito([tieneCodigo |-> FALSE, codigoVehiculo |-> 0, prohibidoEnajenar |-> ""]),
      Exito([tieneCodigo |-> TRUE, codigoVehiculo |-> 42, prohibidoEnajenar |-> ""]),
      Exito([tieneCodigo |-> TRUE, codigoVehiculo |-> 42, prohibidoEnajenar |-> "SI"]) }

\* rubros as the SRI reports them; codigoRubro = 0 stands for a missing code
RubroPool ==
    << [codigoRubro |-> 0, valorRubro |-> 50, claves |-> {},
        nombreCortoBeneficiario |-> "GAD"],
       [codigoRubro |-> 101, valorRubro |-> 150, claves |-> {"IMPUESTO"},
        nombreCortoBeneficiario |-> "GAD"],
       [codigoRubro |-> 102, valorRubro |-> 600, claves |-> {"TASA", "MULTA"},
        nombreCortoBeneficiario |-> "SRI"] >>

RubrosResponses == {Falla} \cup { Exito(l) : l \in SubListas(RubroPool, MaxRubros) }

\* components as the SRI reports them; esNumero = FALSE is a non-numeric valorComponente
ComponentePool ==
    << [claves |-> {"IMPUESTO"}, valorComponente |-> 150, esNumero |-> TRUE],
       [claves |-> {"PRESCRIPCION"}, valorComponente |-> -50, esNumero |-> TRUE],
       [claves |-> {"PRESCRIPCION"}, valorComponente |-> 40, esNumero |-> TRUE],
       [claves |-> {"INTERES", "MULTA"}, valorComponente |-> 120, esNumero |-> TRUE],
       [claves |-> {}, valorComponente |-> 0, esNumero |-> FALSE] >>

ComponentesResponses ==
    {Falla} \cup { Exito(l) : l \in SubListas(ComponentePool, MaxComponentes) }

\* payments; codigoRecaudacion = 0 stands for a missing code, fechaDePago is
\* kept as the year it names (0: no date)
PagoPool ==
    << [codigoRecaudacion |-> 9001, monto |-> 1200, esNumero |-> TRUE, fechaDePago |-> AnoActual],
       [codigoRecaudacion |-> 0, monto |-> 900, esNumero |-> TRUE, fechaDePago |-> AnoActual - 1] >>

\* a history longer than the detail limit: the first, the last processed and the
\* first unprocessed payment carry a receipt code
PagosLargos ==
    [i \in 1..(LimitePagos + 1) |->
        [codigoRecaudacion |-> IF i \in {1, LimitePagos, LimitePagos + 1} THEN 9100 + i ELSE 0,
         monto |-> 10, esNumero |-> TRUE, fechaDePago |-> AnoActual - 1]]

PagosResponses ==
    {Falla, Exito(PagosLargos)} \cup { Exito(l) : l \in SubListas(PagoPool, MaxPagos) }

DetalleResponses(codigo) == { Falla, Exito(<<[codigoRecaudacion |-> codigo]>>) }

\* IACV plan; numeroCuota and periodoFiscal are kept as the numbers they name
CuotaPool ==
    << [numeroCuota |-> 1, periodoFiscal |-> 2024, estadoPago |-> "VENCIDO", totalCuota |-> 120],
       [numeroCuota |-> 5, periodoFiscal |-> 2024, estadoPago |-> "PAGADO", totalCuota |-> 30] >>

IacvResponses == {Falla} \cup { Exito(l) : l \in SubListas(CuotaPool, MaxCuotas) }

----------------------------------------------------------------------------
(* VehicleDataSRI and the entries of active_consultations *)

VehicleDataSRI(original, normalizada) ==
    [ placa_original |-> original,
      placa_normalizada |-> normalizada,
      codigo_vehiculo |-> 0,
      prohibido_enajenar |-> "",
      propietario_nombre |-> "",
      propietario_encontrado |-> FALSE,
      rubros_deuda |-> <<>>,
      componentes_deuda |-> <<>>,
      totales_por_beneficiario |-> <<>>,
      total_deudas_sri |-> 0,
      total_impuestos |-> 0,
      total_tasas |-> 0,
      total_intereses |-> 0,
      total_multas |-> 0,
      total_prescripciones |-> 0,
      historial_pagos |-> <<>>,
      detalles_pagos |-> <<>>,
      total_pagos_realizados |-> 0,
      plan_excepcional_iacv |-> <<>>,
      total_cuotas_vencidas |-> 0,
      cuotas_por_estado |-> <<>>,
      estado_legal_sri |-> "PENDIENTE",
      riesgo_tributario |-> "INDETERMINADO",
      recomendacion_tributaria |-> "",
      puntuacion_sri |-> 0,
      total_rubros_pendientes |-> 0,
      total_componentes_analizados |-> 0,
      pagos_ultimo_ano |-> 0,
      consulta_exitosa |-> FALSE,
      mensaje_error |-> "" ]

SinDatos == VehicleDataSRI(<<>>, <<>>)

\* an entry without 'result' has result = <<>>; with it, result = <<to_dict()>>;
\* an entry without 'timestamp' has timestamp = <<>>; with it, timestamp = <<seconds>>
Entrada(status, progress) ==
    [status |-> status, progress |-> progress, result |-> <<>>, timestamp |-> <<>>]

\* 'timestamp': datetime.now().isoformat()
ConTimestamp(e) == [e EXCEPT !.timestamp = <<reloj>>]

Guardar(entrada) ==
    [s \in DOMAIN active_consultations \cup {SessionId} |->
        IF s = SessionId THEN entrada ELSE active_consultations[s]]

Peticion(api, arg) == [api |-> api, arg |-> arg]

----------------------------------------------------------------------------
(* Enrichment of the upstream payloads *)

\* _consultar_rubros_deuda_sri: categoria from the description, prioridad from the value
CategoriaRubro(claves) ==
    IF "IMPUESTO" \in claves THEN "IMPUESTO"
    ELSE IF "TASA" \in claves THEN "TASA"
    ELSE IF "MULTA" \in claves THEN "MULTA"
    ELSE "OTRO"

PrioridadRubro(valor) ==
    IF valor > 500 THEN "ALTA" ELSE IF valor > 100 THEN "MEDIA" ELSE "BAJA"

EnriquecerRubro(r) ==
    [ codigoRubro |-> r.codigoRubro, valorRubro |-> r.valorRubro, claves |-> r.claves,
      nombreCortoBeneficiario |-> r.nombreCortoBeneficiario,
      categoria |-> CategoriaRubro(r.claves), prioridad |-> PrioridadRubro(r.valorRubro) ]

\* _consultar_componentes_detallados_sri: tipo_componente from code and description
TipoComponente(claves) ==
    IF "IMPUESTO" \in claves THEN "IMPUESTO"
    ELSE IF "TASA" \in claves THEN "TASA"
    ELSE IF "INTERES" \in claves THEN "INTERES"
    ELSE IF "MULTA" \in claves THEN "MULTA"
    ELSE IF "PRESCRIPCION" \in claves THEN "PRESCRIPCION"
    ELSE "OTRO"

EnriquecerComponente(c, rubro) ==
    [ claves |-> c.claves, valorComponente |-> c.valorComponente, esNumero |-> c.esNumero,
      rubro_padre |-> rubro.codigoRubro, tipo_componente |-> TipoComponente(c.claves) ]

\* _estimar_fecha_vencimiento_iacv: <<day, month, year>>
EstimarFechaVencimiento(periodo, cuota_num) ==
    LET mes == (cuota_num - 1) * 3 + 3
    IN IF mes > 12
       THEN <<31, ((mes - 1) % 12) + 1, periodo + ((mes - 1) \div 12)>>
       ELSE <<31, mes, periodo>>

EnriquecerCuota(q) ==
    [ numeroCuota |-> q.numeroCuota, periodoFiscal |-> q.periodoFiscal,
      estadoPago |-> q.estadoPago, totalCuota |-> q.totalCuota,
      fechaVencimientoEstimada |-> EstimarFechaVencimiento(q.periodoFiscal, q.numeroCuota) ]

----------------------------------------------------------------------------
(* Aggregation *)

\* the first index at or after k whose code is present (not 0); Len(codigos) + 1
\* if there is none: the loops skip the elements without a code
\* a search that steps back to the element before k
SiguienteSinAvance(codigos, k) == IF k > 1 THEN k - 1 ELSE k

RECURSIVE SiguienteConCodigo(_, _)
SiguienteConCodigo(codigos, k) ==
    IF k > Len(codigos) THEN Len(codigos) + 1
    ELSE IF codigos[k] # 0 THEN k
    ELSE SiguienteConCodigo(codigos, k + 1)

CodigosDeRubros(rubros) == [i \in DOMAIN rubros |-> rubros[i].codigoRubro]
CodigosDePagos(pagos) == [i \in DOMAIN pagos |-> pagos[i].codigoRecaudacion]

\* _analizar_componentes_detallados_sri: what one component adds to each total
AporteTipo(c, tipo) ==
    IF c.esNumero /\ c.tipo_componente = tipo /\ c.valorComponente > 0
    THEN c.valorComponente ELSE 0

AportePrescripcion(c) ==
    IF c.esNumero /\ c.tipo_componente = "PRESCRIPCION" THEN c.valorComponente ELSE 0

\* a total that also adds the amounts that are not positive
AporteGeneralConNegativos(c) == IF c.esNumero THEN c.valorComponente ELSE 0
AporteGeneral(c) ==
    IF c.esNumero /\ c.valorComponente > 0 THEN c.valorComponente ELSE 0

TotalTipo(componentes, tipo) ==
    Suma([i \in DOMAIN componentes |-> AporteTipo(componentes[i], tipo)])

TotalPrescripciones(componentes) ==
    Suma([i \in DOMAIN componentes |-> AportePrescripcion(componentes[i])])

TotalGeneral(componentes) ==
    Suma([i \in DOMAIN componentes |-> AporteGeneral(componentes[i])])

AnalizarComponentes(vd) ==
    [vd EXCEPT !.total_impuestos = TotalTipo(vd.componentes_deuda, "IMPUESTO"),
               !.total_tasas = TotalTipo(vd.componentes_deuda, "TASA"),
               !.total_intereses = TotalTipo(vd.componentes_deuda, "INTERES"),
               !.total_multas = TotalTipo(vd.componentes_deuda, "MULTA"),
               !.total_prescripciones = TotalPrescripciones(vd.componentes_deuda),
               !.total_deudas_sri = TotalGeneral(vd.componentes_deuda)]

\* _agrupar_rubros_por_beneficiario_sri: totales_por_beneficiario
AgruparRubros(vd) ==
    LET rubros == vd.rubros_deuda
        bens == { rubros[i].nombreCortoBeneficiario : i \in DOMAIN rubros }
    IN [vd EXCEPT !.totales_por_beneficiario =
          [b \in bens |->
              Suma([i \in DOMAIN rubros |->
                      IF rubros[i].nombreCortoBeneficiario = b
                      THEN rubros[i].valorRubro ELSE 0])]]

\* a loop over the whole history
PagosSinLimite(historial) == historial

\* _procesar_detalles_pagos_sri: the payments that are processed, and the sums over them
PagosAProcesar(historial) ==
    IF Len(historial) > LimitePagos THEN SubSeq(historial, 1, LimitePagos) ELSE historial

MontoPago(p) == IF p.esNumero THEN p.monto ELSE 0

MontoUltimoAno(p) ==
    IF p.esNumero /\ p.fechaDePago # 0 /\ p.fechaDePago = AnoActual THEN p.monto ELSE 0

TotalPagos(pagos) == Suma([i \in DOMAIN pagos |-> MontoPago(pagos[i])])

TotalUltimoAno(pagos) == Suma([i \in DOMAIN pagos |-> MontoUltimoAno(pagos[i])])

\* _analizar_plan_iacv_sri
MontoVencido(q) == IF q.estadoPago = "VENCIDO" THEN q.totalCuota ELSE 0

TotalVencidas(plan) == Suma([i \in DOMAIN plan |-> MontoVencido(plan[i])])

CuotasPorEstado(plan) ==
    [e \in { plan[i].estadoPago : i \in DOMAIN plan } |->
        Cardinality({ i \in DOMAIN plan : plan[i].estadoPago = e })]

AnalizarPlanIacv(vd, plan) ==
    [vd EXCEPT !.total_cuotas_vencidas = TotalVencidas(plan),
               !.cuotas_por_estado = CuotasPorEstado(plan)]

----------------------------------------------------------------------------
(* _realizar_analisis_consolidado_sri.  Scores are in units of 1/Escala. *)

\* the tiers of 100 and 500 exchanged
PenalizacionDeudaInvertida(deuda) ==
    IF deuda > 2000 THEN 50
    ELSE IF deuda > 1000 THEN 40
    ELSE IF deuda > 500 THEN 15
    ELSE IF deuda > 100 THEN 25
    ELSE IF deuda > 0 THEN 5
    ELSE 0

PenalizacionDeuda(deuda) ==
    IF deuda > 2000 THEN 50
    ELSE IF deuda > 1000 THEN 40
    ELSE IF deuda > 500 THEN 25
    ELSE IF deuda > 100 THEN 15
    ELSE IF deuda > 0 THEN 5
    ELSE 0

PenalizacionMultas(multas) ==
    IF multas > 100 THEN 20 ELSE IF multas > 0 THEN 10 ELSE 0

PenalizacionIntereses(intereses) ==
    IF intereses > 50 THEN 15 ELSE IF intereses > 0 THEN 5 ELSE 0

PenalizacionIacv(vencidas) ==
    IF vencidas > 100 THEN 25
    ELSE IF vencidas > 50 THEN 20
    ELSE IF vencidas > 0 THEN 10
    ELSE 0

BonificacionPagos(pagado) ==
    IF pagado > 2000 THEN 10 ELSE IF pagado > 1000 THEN 5 ELSE 0

BonificacionUltimoAno(pagado) == IF pagado > 0 THEN 5 ELSE 0

PenalizacionProhibido(prohibido) ==
    IF prohibido \in {"SI", "SÍ", "YES"} THEN 30 ELSE 0

\* min(10, abs(total_prescripciones) / 100), a float, in units of 1/Escala
BonificacionPrescripcion(prescripciones) ==
    IF prescripciones < 0
    THEN Min(10 * Escala, (Abs(prescripciones) * Escala) \div 100)
    ELSE 0

PuntuacionSinLimite(vd) ==
    Escala * ( 100
               - PenalizacionDeuda(vd.total_deudas_sri)
               - PenalizacionMultas(vd.total_multas)
               - PenalizacionIntereses(vd.total_intereses)
               - PenalizacionIacv(vd.total_cuotas_vencidas)
               + BonificacionPagos(vd.total_pagos_realizados)
               + BonificacionUltimoAno(vd.pagos_ultimo_ano)
               - PenalizacionProhibido(vd.prohibido_enajenar) )
    + BonificacionPrescripcion(vd.total_prescripciones)

\* max(0, min(100, puntuacion))
PuntuacionSRI(vd) == Max(0, Min(100 * Escala, PuntuacionSinLimite(vd)))

\* the tiers with the thresholds themselves left out
EstadoLegalEstricto(puntuacion) ==
    IF puntuacion > 95 * Escala
    THEN <<"EXCELENTE - SIN DEUDAS", "MUY BAJO",
           "Vehículo con situación tributaria óptima para transferencia">>
    ELSE IF puntuacion > 80 * Escala
    THEN <<"BUENO - DEUDAS MENORES", "BAJO",
           "Regularizar deudas menores antes de transferencia">>
    ELSE IF puntuacion > 60 * Escala
    THEN <<"REGULAR - DEUDAS MODERADAS", "MODERADO",
           "Negociar descuento por deudas pendientes en precio final">>
    ELSE IF puntuacion > 40 * Escala
    THEN <<"MALO - DEUDAS ALTAS", "ALTO",
           "Verificar costos de regularización antes de compra">>
    ELSE <<"CRÍTICO - MÚLTIPLES DEUDAS", "CRÍTICO",
           "NO RECOMENDADO - Evaluar otras alternativas">>

EstadoLegal(puntuacion) ==
    IF puntuacion >= 95 * Escala
    THEN <<"EXCELENTE - SIN DEUDAS", "MUY BAJO",
           "Vehículo con situación tributaria óptima para transferencia">>
    ELSE IF puntuacion >= 80 * Escala
    THEN <<"BUENO - DEUDAS MENORES", "BAJO",
           "Regularizar deudas menores antes de transferencia">>
    ELSE IF puntuacion >= 60 * Escala
    THEN <<"REGULAR - DEUDAS MODERADAS", "MODERADO",
           "Negociar descuento por deudas pendientes en precio final">>
    ELSE IF puntuacion >= 40 * Escala
    THEN <<"MALO - DEUDAS ALTAS", "ALTO",
           "Verificar costos de regularización antes de compra">>
    ELSE <<"CRÍTICO - MÚLTIPLES DEUDAS", "CRÍTICO",
           "NO RECOMENDADO - Evaluar otras alternativas">>

RealizarAnalisisConsolidado(vd) ==
    LET p == PuntuacionSRI(vd)
    IN [vd EXCEPT !.puntuacion_sri = p,
                  !.estado_legal_sri = EstadoLegal(p)[1],
                  !.riesgo_tributario = EstadoLegal(p)[2],
                  !.recomendacion_tributaria = EstadoLegal(p)[3]]

----------------------------------------------------------------------------
(* Results of the stages of consultar_vehiculo_completo *)

\* _consultar_propietario_vehiculo: the primary API, then the backup
\* a test that takes any answer of the primary API for an owner
PrimarioRespondio(r1) == Ok(r1)

PropietarioPrimario(r1) == Ok(r1) /\ Body(r1).name # ""
PropietarioRespaldo(r2) == Ok(r2) /\ Body(r2).propietario

ConsultarPropietarioVehiculo(vd, r1, r2) ==
    IF PropietarioPrimario(r1)
    THEN [vd EXCEPT !.propietario_nombre = Body(r1).name, !.propietario_encontrado = TRUE]
    ELSE IF PropietarioRespaldo(r2)
    THEN [vd EXCEPT !.propietario_nombre = Body(r2).nombre, !.propietario_encontrado = TRUE]
    ELSE [vd EXCEPT !.propietario_encontrado = FALSE]

PeticionesPropietario(plate, r1) ==
    IF PropietarioPrimario(r1)
    THEN <<Peticion("owner_primary", plate)>>
    ELSE <<Peticion("owner_primary", plate), Peticion("owner_backup", plate)>>

\* a test that takes any body for a vehicle: not (not base_info)
BaseRespondida(b) == Ok(b)

\* not (not base_info or 'codigoVehiculo' not in base_info)
BaseEncontrada(b) == Ok(b) /\ Body(b).tieneCodigo

\* a second base query whenever the plates differ
ReintentaSiDifiere(vd, r1) == vd.placa_original # vd.placa_normalizada

\* the second base query: only after a miss, and only if the plates differ
ReintentaBase(vd, r1) ==
    ~BaseEncontrada(r1) /\ vd.placa_original # vd.placa_normalizada

\* _actualizar_info_basica_sri
ActualizarInfoBasica(vd, base_info) ==
    [vd EXCEPT !.codigo_vehiculo = base_info.codigoVehiculo,
               !.prohibido_enajenar = base_info.prohibidoEnajenar]

BaseNoEncontrada(vd) ==
    [vd EXCEPT !.consulta_exitosa = FALSE,
               !.mensaje_error = "No se encontró información del vehículo en el SRI"]

RubrosInfo(r) ==
    IF Ok(r) THEN [i \in DOMAIN Body(r) |-> EnriquecerRubro(Body(r)[i])] ELSE <<>>

AsignarRubros(vd, rubros_info) ==
    [vd EXCEPT !.rubros_deuda = rubros_info,
               !.total_rubros_pendientes = Len(rubros_info)]

\* end of the rubro loop of _consultar_componentes_detallados_sri
AsignarComponentes(vd, todos_componentes) ==
    [vd EXCEPT !.componentes_deuda = todos_componentes,
               !.total_componentes_analizados = Len(todos_componentes)]

ComponentesDeRubro(r, rubro) ==
    [i \in DOMAIN Body(r) |-> EnriquecerComponente(Body(r)[i], rubro)]

\* a failed history request that leaves payments in the record
HistorialPagosSinCaptura(r) == IF Ok(r) THEN Body(r) ELSE PagoPool
HistorialPagos(r) == IF Ok(r) THEN Body(r) ELSE <<>>

\* end of the payment loop of _procesar_detalles_pagos_sri
AsignarPagos(vd, detalles_pagos) ==
    [vd EXCEPT !.detalles_pagos = detalles_pagos,
               !.total_pagos_realizados = TotalPagos(PagosAProcesar(vd.historial_pagos)),
               !.pagos_ultimo_ano = TotalUltimoAno(PagosAProcesar(vd.historial_pagos))]

PlanIacv(r) ==
    IF Ok(r) THEN [i \in DOMAIN Body(r) |-> EnriquecerCuota(Body(r)[i])] ELSE <<>>

AsignarPlanIacv(vd, plan) ==
    AnalizarPlanIacv([vd EXCEPT !.plan_excepcional_iacv = plan], plan)

\* an analysis that does not mark the record successful
AnalisisSinExito(vd) == RealizarAnalisisConsolidado(AnalizarComponentes(AgruparRubros(vd)))
\* PASO 7 of consultar_vehiculo_completo
AnalisisCompleto(vd) ==
    [RealizarAnalisisConsolidado(AnalizarComponentes(AgruparRubros(vd)))
        EXCEPT !.consulta_exitosa = TRUE]

----------------------------------------------------------------------------
(* The entries written to active_consultations *)

EntradaIniciando == ConTimestamp(Entrada("iniciando", 5))
EntradaPropietario == Entrada("consultando_propietario", 5)
EntradaBase == Entrada("consultando_base_sri", 15)
EntradaRubros == Entrada("consultando_rubros_sri", 35)
EntradaComponentes == Entrada("consultando_componentes_sri", 55)
\* a stage that reports the status of an earlier stage
EntradaPagosRepetida == Entrada("consultando_rubros_sri", 35)
EntradaPagos == Entrada("consultando_pagos_sri", 75)
EntradaIacv == Entrada("consultando_iacv", 85)
EntradaAnalisis == Entrada("analizando_completo", 95)
EntradaCompletado(vd) ==
    ConTimestamp([Entrada("completado", 100) EXCEPT !.result = <<vd>>])
EntradaError == ConTimestamp(Entrada("error", 0))

----------------------------------------------------------------------------
(* Actions *)

\* the application after construction, before any request
InicioPipeline ==
    /\ active_consultations = <<>>
    /\ pc = "idle"
    /\ placa = <<>>
    /\ cedula = <<>>
    /\ http = <<>>
    /\ vehicle_data = SinDatos
    /\ codigo_vehiculo = 0
    /\ idx = 0
    /\ acumulado = <<>>
    /\ response = <<>>
    /\ requests = <<>>

\* no pure function is under study
InicioFn == argumentos = <<>> /\ resultados = <<>>

\* VehicleConsultantSRI.__init__ and VehicleScraper.__init__: no request yet
InicioLimitador ==
    /\ last_request_time_sri = 0
    /\ last_request_time = <<>>
    /\ llamadas = <<>>

\* no request is being sent
InicioEnvio == envio = <<>>

\* VehicleCache.__init__
InicioCache ==
    /\ _validation_cache = <<>>
    /\ cache = <<>>
    /\ access_times = <<>>
    /\ ultimo_set = <<>>
    /\ lectura = <<>>

\* no thread yet
InicioHilos == hilos = <<>>

InicioClientes == InicioLimitador /\ InicioEnvio /\ InicioCache /\ InicioHilos

Init ==
    /\ InicioPipeline
    /\ reloj = 1
    /\ InicioFn
    /\ InicioClientes

\* a reply of the application: the HTTP status and the 'error' text, "" if none
Respuesta(code, error) == [code |-> code, error |-> error]

\* the reply of POST /api/consultar-vehiculo to a plate and a national id
RespuestaConsultar(p, c) ==
    IF p = <<>> THEN Respuesta(400, "Placa es requerida")
    ELSE IF ~validate_plate_format(p) THEN Respuesta(400, "Formato de placa invalido")
    ELSE IF ~validate_ecuadorian_id(c) THEN Respuesta(400, "Cedula ecuatoriana invalida")
    ELSE Respuesta(202, "")

\* POST /api/consultar-vehiculo: validates the plate and the national id, and
\* starts the thread when both pass
StartConsultation ==
    /\ pc = "idle"
    /\ \E p \in Placas, c \in Cedulas :
          /\ placa' = p
          /\ cedula' = c
          /\ http' = RespuestaConsultar(p, c)
          /\ pc' = IF RespuestaConsultar(p, c).code = 202 THEN "thread" ELSE "idle"
    /\ UNCHANGED <<active_consultations, vehicle_data, codigo_vehiculo, idx, acumulado,
                   response, requests>>
    /\ UNCHANGED fuera_pipeline

\* run_complete_consultation marks the session, consultar_vehiculo_completo
\* normalizes the plate and creates the record
Iniciar ==
    /\ pc = "thread"
    /\ active_consultations' = Guardar(EntradaIniciando)
    /\ vehicle_data' = VehicleDataSRI(normalize_plate(placa)[1], normalize_plate(placa)[2])
    /\ pc' = "propietario"
    /\ UNCHANGED <<placa, codigo_vehiculo, idx, acumulado, response, requests>>
    /\ UNCHANGED <<cedula, http, fuera_pipeline>>

\* PASO 1
ConsultarPropietario ==
    /\ pc = "propietario"
    /\ active_consultations' = Guardar(EntradaPropietario)
    /\ \E r1 \in OwnerPrimaryResponses, r2 \in OwnerBackupResponses :
          /\ vehicle_data' = ConsultarPropietarioVehiculo(vehicle_data, r1, r2)
          /\ response' = IF PropietarioPrimario(r1) THEN r1 ELSE r2
          /\ requests' = requests \o PeticionesPropietario(vehicle_data.placa_normalizada, r1)
    /\ pc' = "base"
    /\ UNCHANGED <<placa, codigo_vehiculo, idx, acumulado>>
    /\ UNCHANGED <<cedula, http, fuera_pipeline>>

\* PASO 2: a miss returns the record without running the later stages
ConsultarBase ==
    /\ pc = "base"
    /\ active_consultations' = Guardar(EntradaBase)
    /\ \E r1, r2 \in BaseResponses :
          LET reintenta == ReintentaBase(vehicle_data, r1)
              base_info == IF reintenta THEN r2 ELSE r1
          IN /\ response' = base_info
             /\ requests' =
                   requests \o <<Peticion("base_vehiculo", vehicle_data.placa_normalizada)>>
                            \o (IF reintenta
                                THEN <<Peticion("base_vehiculo", vehicle_data.placa_original)>>
                                ELSE <<>>)
             /\ IF BaseEncontrada(base_info)
                THEN /\ vehicle_data' = ActualizarInfoBasica(vehicle_data, Body(base_info))
                     /\ codigo_vehiculo' = Body(base_info).codigoVehiculo
                     /\ pc' = "rubros"
                ELSE /\ vehicle_data' = BaseNoEncontrada(vehicle_data)
                     /\ codigo_vehiculo' = codigo_vehiculo
                     /\ pc' = "completar"
    /\ UNCHANGED <<placa, idx, acumulado>>
    /\ UNCHANGED <<cedula, http, fuera_pipeline>>

\* PASO 3
ConsultarRubros ==
    /\ pc = "rubros"
    /\ active_consultations' = Guardar(EntradaRubros)
    /\ requests' = Append(requests, Peticion("consulta_rubros", codigo_vehiculo))
    /\ \E r \in RubrosResponses :
          /\ response' = r
          /\ vehicle_data' = AsignarRubros(vehicle_data, RubrosInfo(r))
    /\ pc' = "componentes"
    /\ UNCHANGED <<placa, codigo_vehiculo, idx, acumulado>>
    /\ UNCHANGED <<cedula, http, fuera_pipeline>>

\* PASO 4: entering the rubro loop; rubros without a code are skipped
IniciarComponentes ==
    /\ pc = "componentes"
    /\ active_consultations' = Guardar(EntradaComponentes)
    /\ LET k == SiguienteConCodigo(CodigosDeRubros(vehicle_data.rubros_deuda), 1)
       IN IF k > Len(vehicle_data.rubros_deuda)
          THEN /\ vehicle_data' = AsignarComponentes(vehicle_data, <<>>)
               /\ idx' = 0
               /\ pc' = "pagos"
          ELSE /\ vehicle_data' = vehicle_data
               /\ idx' = k
               /\ pc' = "comp_loop"
    /\ acumulado' = <<>>
    /\ UNCHANGED <<placa, codigo_vehiculo, response, requests>>
    /\ UNCHANGED <<cedula, http, fuera_pipeline>>

\* one component request of the loop; a failure raises out of the loop into the
\* except clause of _consultar_componentes_detallados_sri
ConsultarComponentesRubro ==
    /\ pc = "comp_loop"
    /\ LET rubros == vehicle_data.rubros_deuda
           rubro == rubros[idx]
       IN /\ requests' = Append(requests, Peticion("consulta_componente", rubro.codigoRubro))
          /\ \E r \in ComponentesResponses :
                /\ response' = r
                /\ IF ~Ok(r)
                   THEN /\ vehicle_data' = vehicle_data
                        /\ acumulado' = <<>>
                        /\ idx' = 0
                        /\ pc' = "pagos"
                   ELSE LET todos == acumulado \o ComponentesDeRubro(r, rubro)
                            k == SiguienteConCodigo(CodigosDeRubros(rubros), idx + 1)
                        IN IF k > Len(rubros)
                           THEN /\ vehicle_data' = AsignarComponentes(vehicle_data, todos)
                                /\ acumulado' = <<>>
                                /\ idx' = 0
                                /\ pc' = "pagos"
                           ELSE /\ vehicle_data' = vehicle_data
                                /\ acumulado' = todos
                                /\ idx' = k
                                /\ pc' = "comp_loop"
    /\ UNCHANGED <<active_consultations, placa, codigo_vehiculo>>
    /\ UNCHANGED <<cedula, http, fuera_pipeline>>

\* PASO 5: the payment history, then the payment loop up to its first detail request
ConsultarPagos ==
    /\ pc = "pagos"
    /\ active_consultations' = Guardar(EntradaPagos)
    /\ requests' = Append(requests, Peticion("consulta_pagos", vehicle_data.placa_normalizada))
    /\ \E r \in PagosResponses :
          LET conHistorial == [vehicle_data EXCEPT !.historial_pagos = HistorialPagos(r)]
              procesar == PagosAProcesar(HistorialPagos(r))
              k == SiguienteConCodigo(CodigosDePagos(procesar), 1)
          IN /\ response' = r
             /\ IF k > Len(procesar)
                THEN /\ vehicle_data' = AsignarPagos(conHistorial, <<>>)
                     /\ idx' = 0
                     /\ pc' = "iacv"
                ELSE /\ vehicle_data' = conHistorial
                     /\ idx' = k
                     /\ pc' = "det_loop"
    /\ acumulado' = <<>>
    /\ UNCHANGED <<placa, codigo_vehiculo>>
    /\ UNCHANGED <<cedula, http, fuera_pipeline>>

\* one payment-detail request of the loop; a failure is skipped
ConsultarDetallePago ==
    /\ pc = "det_loop"
    /\ LET procesar == PagosAProcesar(vehicle_data.historial_pagos)
           pago == procesar[idx]
       IN /\ requests' = Append(requests, Peticion("detalle_pagos", pago.codigoRecaudacion))
          /\ \E r \in DetalleResponses(pago.codigoRecaudacion) :
                LET detalles == IF Ok(r) THEN acumulado \o Body(r) ELSE acumulado
                    k == SiguienteConCodigo(CodigosDePagos(procesar), idx + 1)
                IN /\ response' = r
                   /\ IF k > Len(procesar)
                      THEN /\ vehicle_data' = AsignarPagos(vehicle_data, detalles)
                           /\ acumulado' = <<>>
                           /\ idx' = 0
                           /\ pc' = "iacv"
                      ELSE /\ vehicle_data' = vehicle_data
                           /\ acumulado' = detalles
                           /\ idx' = k
                           /\ pc' = "det_loop"
    /\ UNCHANGED <<active_consultations, placa, codigo_vehiculo>>
    /\ UNCHANGED <<cedula, http, fuera_pipeline>>

\* PASO 6
ConsultarIacv ==
    /\ pc = "iacv"
    /\ active_consultations' = Guardar(EntradaIacv)
    /\ requests' = Append(requests, Peticion("plan_excepcional", codigo_vehiculo))
    /\ \E r \in IacvResponses :
          /\ response' = r
          /\ vehicle_data' = AsignarPlanIacv(vehicle_data, PlanIacv(r))
    /\ pc' = "analisis"
    /\ UNCHANGED <<placa, codigo_vehiculo, idx, acumulado>>
    /\ UNCHANGED <<cedula, http, fuera_pipeline>>

\* PASO 7
Analizar ==
    /\ pc = "analisis"
    /\ active_consultations' = Guardar(EntradaAnalisis)
    /\ vehicle_data' = AnalisisCompleto(vehicle_data)
    /\ pc' = "completar"
    /\ UNCHANGED <<placa, codigo_vehiculo, idx, acumulado, response, requests>>
    /\ UNCHANGED <<cedula, http, fuera_pipeline>>

\* run_complete_consultation: whatever record the coroutine returned is stored
\* as the result of a completed session
MarcarCompletado ==
    /\ pc = "completar"
    /\ active_consultations' = Guardar(EntradaCompletado(vehicle_data))
    /\ pc' = "fin"
    /\ vehicle_data' = SinDatos
    /\ codigo_vehiculo' = 0
    /\ response' = <<>>
    /\ UNCHANGED <<placa, idx, acumulado, requests>>
    /\ UNCHANGED <<cedula, http, fuera_pipeline>>

\* run_complete_consultation: an exception outside the coroutine's own try
\* (before it is entered, or while the completed entry is built)
ErrorEnThread ==
    /\ pc \in {"propietario", "completar"}
    /\ active_consultations' = Guardar(EntradaError)
    /\ pc' = "fin"
    /\ vehicle_data' = SinDatos
    /\ codigo_vehiculo' = 0
    /\ response' = <<>>
    /\ UNCHANGED <<placa, idx, acumulado, requests>>
    /\ UNCHANGED <<cedula, http, fuera_pipeline>>

Next ==
    \/ StartConsultation
    \/ Iniciar
    \/ ConsultarPropietario
    \/ ConsultarBase
    \/ ConsultarRubros
    \/ IniciarComponentes
    \/ ConsultarComponentesRubro
    \/ ConsultarPagos
    \/ ConsultarDetallePago
    \/ ConsultarIacv
    \/ Analizar
    \/ MarcarCompletado
    \/ ErrorEnThread

Spec == Init /\ [][Next]_vars

----------------------------------------------------------------------------
(* What a polling caller reads *)

HaySesion(sid) == sid \in DOMAIN active_consultations

\* GET /api/estado-consulta/<session_id>
get_consultation_status(sid) ==
    IF HaySesion(sid)
    THEN [code |-> 200,
          status |-> active_consultations[sid].status,
          progress |-> active_consultations[sid].progress,
          result_available |-> active_consultations[sid].status = "completado"]
    ELSE [code |-> 404, status |-> "", progress |-> 0, result_available |-> FALSE]

\* a reply of GET /api/resultado/<session_id>: vehicle_data is <<record>> when
\* one is returned, error is "" when the body has none
RespuestaResultado(code, success, error, record) ==
    [code |-> code, success |-> success, error |-> error, vehicle_data |-> record]

\* a reading that returns whatever the entry holds
resultado_sin_estado(sid) ==
    IF HaySesion(sid)
    THEN RespuestaResultado(200, TRUE, "", active_consultations[sid].result)
    ELSE RespuestaResultado(200, TRUE, "", <<>>)

\* GET /api/resultado/<session_id>
get_consultation_result(sid) ==
    IF HaySesion(sid)
    THEN IF /\ active_consultations[sid].status = "completado"
            /\ active_consultations[sid].result # <<>>
         THEN RespuestaResultado(200, TRUE, "", active_consultations[sid].result)
         ELSE IF active_consultations[sid].status = "error"
         THEN RespuestaResultado(500, FALSE, "Error desconocido", <<>>)
         ELSE RespuestaResultado(202, FALSE, "Consulta aun en proceso", <<>>)
    ELSE RespuestaResultado(404, FALSE, "Sesion no encontrada", <<>>)

----------------------------------------------------------------------------
(* Vocabulary of the properties *)

\* the position of a tracked status in INIT, OWNER, BASE, RUBROS, COMPONENTS,
\* PAYMENTS, IACV, ANALYSIS, {DONE | ERROR}
Rango(status) ==
    CASE status = "iniciando" -> 0
      [] status = "consultando_propietario" -> 1
      [] status = "consultando_base_sri" -> 2
      [] status = "consultando_rubros_sri" -> 3
      [] status = "consultando_componentes_sri" -> 4
      [] status = "consultando_pagos_sri" -> 5
      [] status = "consultando_iacv" -> 6
      [] status = "analizando_completo" -> 7
      [] status = "completado" -> 8
      [] status = "error" -> 8

\* the stage whose request an endpoint serves
EtapaDeApi(api) ==
    CASE api \in {"owner_primary", "owner_backup"} -> "consultando_propietario"
      [] api = "base_vehiculo" -> "consultando_base_sri"
      [] api = "consulta_rubros" -> "consultando_rubros_sri"
      [] api = "consulta_componente" -> "consultando_componentes_sri"
      [] api \in {"consulta_pagos", "detalle_pagos"} -> "consultando_pagos_sri"
      [] api = "plan_excepcional" -> "consultando_iacv"

Apis(reqs) == { reqs[i].api : i \in DOMAIN reqs }
Veces(reqs, api) == Cardinality({ i \in DOMAIN reqs : reqs[i].api = api })

\* the BASE stage ended without a vehicle: the last request of the finished
\* coroutine is a base query
BaseSinVehiculo ==
    /\ pc \in {"completar", "fin"}
    /\ requests # <<>>
    /\ requests[Len(requests)].api = "base_vehiculo"

----------------------------------------------------------------------------
(* C1: when BASE finds no vehicle, the session's tracked state becomes ERROR
   and never DONE: GetStatus never reports it completed, GetResult never
   returns a record for it.  (Stated as the spec states it; the code marks
   the session completed.) *)
C1_BaseMissIsError ==
    BaseSinVehiculo =>
        /\ get_consultation_status(SessionId).status # "completado"
        /\ get_consultation_result(SessionId).vehicle_data = <<>>
        /\ pc = "fin" => get_consultation_status(SessionId).status = "error"

(* C2: the stages run in the fixed order OWNER, BASE, RUBROS, COMPONENTS,
   PAYMENTS, IACV, ANALYSIS, then DONE or ERROR.  Every change of the tracked
   status moves forward, to the next stage or to a final state; a stage's
   status is never entered twice; every request is issued while the tracked
   status is the request's own stage; the single-request stages issue their
   request once. *)
C2_Paso ==
    /\ ~HaySesion(SessionId) /\ SessionId \in DOMAIN active_consultations'
          => active_consultations'[SessionId].status = "iniciando"
    /\ HaySesion(SessionId) /\ SessionId \in DOMAIN active_consultations'
          => LET a == active_consultations[SessionId].status
                 b == active_consultations'[SessionId].status
             IN a # b =>
                  /\ Rango(b) > Rango(a)
                  /\ Rango(b) < 8 => Rango(b) = Rango(a) + 1
    /\ \A i \in (Len(requests) + 1)..Len(requests') :
          /\ SessionId \in DOMAIN active_consultations'
          /\ EtapaDeApi(requests'[i].api) = active_consultations'[SessionId].status
    /\ \A api \in {"consulta_rubros", "consulta_pagos", "plan_excepcional"} :
          Veces(requests', api) <= 1

C2_StagesInOrder == [][C2_Paso]_vars

C2_Witness ==
    /\ pc = "fin"
    /\ get_consultation_status(SessionId).status = "completado"
    /\ Apis(requests) = {"owner_primary", "owner_backup", "base_vehiculo", "consulta_rubros",
                         "consulta_componente", "consulta_pagos", "detalle_pagos",
                         "plan_excepcional"}

(* C3: the progress a polling caller reads never decreases while the session
   entry exists, whatever the outcome of the session.  (Stated as the spec
   states it; the thread's error handler writes progress 0.) *)
C3_ProgressMonotone ==
    [][ HaySesion(SessionId) /\ SessionId \in DOMAIN active_consultations'
          => active_consultations'[SessionId].progress
                >= get_consultation_status(SessionId).progress ]_vars

----------------------------------------------------------------------------
(* Stage failures *)

Estado == active_consultations[SessionId].status

\* the request just answered failed (HTTP error, timeout, unusable payload)
FallaRecibida == ~Ok(response')

\* what each stage leaves in the record when it contributes nothing
SinPropietario(vd) == vd.propietario_nombre = "" /\ ~vd.propietario_encontrado
SinComponentes(vd) == vd.componentes_deuda = <<>> /\ vd.total_componentes_analizados = 0
SinPagos(vd) ==
    /\ vd.historial_pagos = <<>>
    /\ vd.detalles_pagos = <<>>
    /\ vd.total_pagos_realizados = 0
    /\ vd.pagos_ultimo_ano = 0
SinIacv(vd) ==
    /\ vd.plan_excepcional_iacv = <<>>
    /\ vd.total_cuotas_vencidas = 0
    /\ vd.cuotas_por_estado = <<>>

(* C4: a failed request in OWNER, COMPONENTS, PAYMENTS or IACV leaves that
   stage's contribution empty or zero and the pipeline goes on with the next
   stage; no step that issues a request produces ERROR; once BASE succeeded
   the coroutine ends only through ANALYSIS, with a successful record, and
   the entry then written for that record is DONE and holds it. *)
C4_Paso ==
    /\ pc = "propietario" /\ pc' = "base" /\ FallaRecibida
          => SinPropietario(vehicle_data') /\ Estado' = "consultando_propietario"
    /\ pc = "comp_loop" /\ FallaRecibida
          => SinComponentes(vehicle_data') /\ pc' = "pagos"
    /\ pc = "pagos" /\ FallaRecibida
          => SinPagos(vehicle_data') /\ pc' = "iacv" /\ Estado' = "consultando_pagos_sri"
    /\ pc = "iacv" /\ FallaRecibida
          => SinIacv(vehicle_data') /\ pc' = "analisis" /\ Estado' = "consultando_iacv"
    /\ requests' # requests => Estado' \notin {"error", "completado"}
    /\ pc' = "completar" /\ pc \notin {"base", "completar"}
          => /\ pc = "analisis"
             /\ vehicle_data'.consulta_exitosa
             /\ SinComponentes(vehicle_data') => vehicle_data'.total_deudas_sri = 0
             /\ SinPagos(vehicle_data) => SinPagos(vehicle_data')
             /\ SinIacv(vehicle_data) => SinIacv(vehicle_data')
    /\ pc = "completar" /\ pc' = "fin" /\ Estado' # "error"
          => /\ Estado' = "completado"
             /\ active_consultations'[SessionId].result = <<vehicle_data>>

C4_StageFailureDegrades == [][C4_Paso]_vars

\* the IACV request failed after a component request had failed, and the
\* coroutine still ended with a successful record
C4_Witness ==
    /\ pc = "completar"
    /\ response = Falla
    /\ requests[Len(requests)].api = "plan_excepcional"
    /\ vehicle_data.consulta_exitosa
    /\ vehicle_data.codigo_vehiculo # 0
    /\ "consulta_componente" \in Apis(requests)
    /\ SinComponentes(vehicle_data)
    /\ SinIacv(vehicle_data)

(* C5: when the component request of one rubro fails, the components fetched
   for the earlier rubros are kept and the remaining rubros are still
   queried.  (Stated as the spec states it; the code leaves the loop and
   drops what it had collected.) *)
C5_Paso ==
    pc = "comp_loop" /\ FallaRecibida =>
        LET rubros == vehicle_data.rubros_deuda
            k == SiguienteConCodigo(CodigosDeRubros(rubros), idx + 1)
        IN IF k > Len(rubros)
           THEN /\ vehicle_data'.componentes_deuda = acumulado
                /\ pc' = "pagos"
           ELSE /\ acumulado' = acumulado
                /\ idx' = k
                /\ pc' = "comp_loop"

C5_RubroFailureIsLocal == [][C5_Paso]_vars

----------------------------------------------------------------------------
(* Records of finished consultations *)

\* the session is DONE and holds a record
HayResultado ==
    /\ HaySesion(SessionId)
    /\ Estado = "completado"
    /\ active_consultations[SessionId].result # <<>>

Resultado == active_consultations[SessionId].result[1]

\* the records the analysis has produced: the one the coroutine is about to
\* return and the one stored for a DONE session
Analizados ==
    (IF pc = "completar" /\ vehicle_data.consulta_exitosa THEN {vehicle_data} ELSE {})
    \cup (IF HayResultado /\ Resultado.consulta_exitosa THEN {Resultado} ELSE {})

EsPrescripcion(c) == c.tipo_componente = "PRESCRIPCION"

\* plain sums over the lists a record stores
SumaPositivosSinPrescripcion(cs) ==
    Suma([i \in DOMAIN cs |->
            IF cs[i].esNumero /\ cs[i].valorComponente > 0 /\ ~EsPrescripcion(cs[i])
            THEN cs[i].valorComponente ELSE 0])

SumaPositivos(cs) ==
    Suma([i \in DOMAIN cs |->
            IF cs[i].esNumero /\ cs[i].valorComponente > 0
            THEN cs[i].valorComponente ELSE 0])

SumaPositivosDeTipo(cs, tipo) ==
    Suma([i \in DOMAIN cs |->
            IF cs[i].esNumero /\ cs[i].valorComponente > 0 /\ cs[i].tipo_componente = tipo
            THEN cs[i].valorComponente ELSE 0])

SumaDePrescripciones(cs) ==
    Suma([i \in DOMAIN cs |->
            IF cs[i].esNumero /\ EsPrescripcion(cs[i]) THEN cs[i].valorComponente ELSE 0])

SumaMontos(pagos) ==
    Suma([i \in DOMAIN pagos |-> IF pagos[i].esNumero THEN pagos[i].monto ELSE 0])

SumaVencidas(plan) ==
    Suma([i \in DOMAIN plan |->
            IF plan[i].estadoPago = "VENCIDO" THEN plan[i].totalCuota ELSE 0])

(* C6, as the spec states it: totalDebt is the sum of the amounts of the
   components whose amount is greater than 0 and whose type is not
   PRESCRIPTION, and is never negative. *)
C6_DebtExcludesPrescription ==
    \A vd \in Analizados :
        /\ vd.total_deudas_sri = SumaPositivosSinPrescripcion(vd.componentes_deuda)
        /\ vd.total_deudas_sri >= 0

(* C6, amended: totalDebt is the sum of every numeric component amount
   greater than 0, whatever the component's type (a positive PRESCRIPTION
   amount is counted too; negative amounts and non-numeric amounts are not),
   and is never negative. *)
C6_DebtSumsAllPositive ==
    \A vd \in Analizados :
        /\ vd.total_deudas_sri = SumaPositivos(vd.componentes_deuda)
        /\ vd.total_deudas_sri >= 0

\* a DONE record with a positive PRESCRIPTION, a negative PRESCRIPTION being
\* possible next to it
C6_Witness ==
    /\ HayResultado
    /\ Resultado.consulta_exitosa
    /\ \E i \in DOMAIN Resultado.componentes_deuda :
          /\ EsPrescripcion(Resultado.componentes_deuda[i])
          /\ Resultado.componentes_deuda[i].valorComponente > 0
    /\ Len(Resultado.componentes_deuda) = 2
    /\ Resultado.total_deudas_sri > 40

(* C7: totalPaid is the plain sum of the amounts of all the payments of the
   reported history, whatever its length and whatever the outcome of the
   payment-detail requests.  (Stated as the spec states it; the code sums the
   first LimitePagos payments only.) *)
C7_TotalPaidIsPlainSum ==
    \A vd \in Analizados :
        vd.total_pagos_realizados = SumaMontos(vd.historial_pagos)

CeroRubrosYPagos(vd) ==
    /\ vd.codigo_vehiculo # 0
    /\ vd.rubros_deuda = <<>>
    /\ vd.historial_pagos = <<>>

(* C8: a session whose BASE stage found the vehicle and whose upstream gave
   zero rubros and zero payments is never turned into ERROR by a stage, asks
   for no component and no payment detail, ends the coroutine with a
   successful record whose totalDebt is 0, and the record stored for it when
   DONE is that successful record with totalDebt 0. *)
C8_EmptyVehicleIsDone ==
    /\ pc \in {"iacv", "analisis", "completar"} /\ CeroRubrosYPagos(vehicle_data)
          => /\ Estado # "error"
             /\ vehicle_data.total_deudas_sri = 0
             /\ vehicle_data.componentes_deuda = <<>>
             /\ Apis(requests) \cap {"consulta_componente", "detalle_pagos"} = {}
             /\ pc = "completar" => vehicle_data.consulta_exitosa
    /\ HayResultado /\ CeroRubrosYPagos(Resultado)
          => /\ Resultado.consulta_exitosa
             /\ Resultado.total_deudas_sri = 0
             /\ Resultado.total_pagos_realizados = 0

C8_Witness ==
    /\ pc = "fin"
    /\ HayResultado
    /\ CeroRubrosYPagos(Resultado)
    /\ Resultado.total_deudas_sri = 0
    /\ {"consulta_rubros", "consulta_pagos", "plan_excepcional"} \subseteq Apis(requests)

(* C9: in every record stored for a DONE session each total agrees with the
   lists of that record: totalDebt and the category totals with the component
   list, totalPaid with the payment list, overdueTotal with the IACV list,
   the rubro and component counts with the lengths of the lists.  (Stated as
   the spec states it; totalPaid leaves out the payments after the first
   LimitePagos, see C7.) *)
C9_TotalsAgreeWithLists ==
    HayResultado =>
        LET vd == Resultado
        IN /\ vd.total_deudas_sri = SumaPositivos(vd.componentes_deuda)
           /\ vd.total_impuestos = SumaPositivosDeTipo(vd.componentes_deuda, "IMPUESTO")
           /\ vd.total_tasas = SumaPositivosDeTipo(vd.componentes_deuda, "TASA")
           /\ vd.total_intereses = SumaPositivosDeTipo(vd.componentes_deuda, "INTERES")
           /\ vd.total_multas = SumaPositivosDeTipo(vd.componentes_deuda, "MULTA")
           /\ vd.total_prescripciones = SumaDePrescripciones(vd.componentes_deuda)
           /\ vd.total_pagos_realizados = SumaMontos(vd.historial_pagos)
           /\ vd.total_cuotas_vencidas = SumaVencidas(vd.plan_excepcional_iacv)
           /\ vd.total_rubros_pendientes = Len(vd.rubros_deuda)
           /\ vd.total_componentes_analizados = Len(vd.componentes_deuda)

(* C10: the score written to the record is an integer between 0 and 100
   inclusive.  (Stated as the spec states it; the prescription bonus adds a
   fraction.)  Scores are in units of 1/Escala. *)
C10_ScoreIsIntegerInRange ==
    \A vd \in Analizados :
        /\ vd.puntuacion_sri % Escala = 0
        /\ 0 <= vd.puntuacion_sri
        /\ vd.puntuacion_sri <= 100 * Escala

----------------------------------------------------------------------------
(* C13 *)

\* the request that is being answered carries a plate or a national id that
\* must not pass
PeticionInvalida == placa' \in PlacasInvalidas \/ cedula' \in CedulasInvalidas

C13_Paso ==
    (pc = "idle" /\ PeticionInvalida) =>
        /\ http'.code = 400
        /\ pc' = "idle"
        /\ active_consultations' = <<>>
        /\ requests' = <<>>

\* C13: a consultation request whose plate is empty or fails the format
\* validation, or whose national id fails validation, is answered at once with
\* a client error (400): no session entry is written, the thread is not
\* started and no upstream request is issued.
C13_InvalidRequestRejected == [][C13_Paso]_vars

\* a request with a valid plate and a national id with a wrong check digit was
\* rejected
C13_Witness ==
    /\ pc = "idle"
    /\ http # <<>>
    /\ http.code = 400
    /\ placa \in PlacasValidas
    /\ cedula = <<"1", "7", "1", "0", "0", "3", "4", "0", "6", "6">>
    /\ active_consultations = <<>>
    /\ requests = <<>>

----------------------------------------------------------------------------
(* The score as a function of the totals: _realizar_analisis_consolidado_sri *)
(* applied to two records that differ in total_deudas_sri only.             *)

\* the debts around every tier of the penalty
DeudasPuntuacion == {0, 1, 100, 101, 500, 501, 1000, 1001, 2000, 2001}

ArgumentosPuntuacion ==
    [ deuda1 : DeudasPuntuacion, deuda2 : DeudasPuntuacion,
      multas : {0, 50, 150}, intereses : {0, 30, 60}, vencidas : {0, 30, 70, 150},
      pagado : {0, 1500, 2500}, ultimo : {0, 10}, prohibido : {"", "SI"},
      prescripciones : {0, -50, -2000} ]

\* the record with the totals of a, and the debt deuda
RegistroPuntuacion(a, deuda) ==
    [SinDatos EXCEPT !.total_deudas_sri = deuda,
                     !.total_multas = a.multas,
                     !.total_intereses = a.intereses,
                     !.total_cuotas_vencidas = a.vencidas,
                     !.total_pagos_realizados = a.pagado,
                     !.pagos_ultimo_ano = a.ultimo,
                     !.prohibido_enajenar = a.prohibido,
                     !.total_prescripciones = a.prescripciones]

InitPuntuacion ==
    /\ InicioPipeline
    /\ reloj = 1
    /\ argumentos \in {a \in ArgumentosPuntuacion : a.deuda1 < a.deuda2}
    /\ resultados = <<>>
    /\ InicioClientes

\* both records are analysed
PuntuarPar ==
    /\ resultados = <<>>
    /\ resultados' =
          << RealizarAnalisisConsolidado(RegistroPuntuacion(argumentos, argumentos.deuda1)).puntuacion_sri,
             RealizarAnalisisConsolidado(RegistroPuntuacion(argumentos, argumentos.deuda2)).puntuacion_sri >>
    /\ UNCHANGED <<vars_pipeline, reloj, argumentos, vars_clientes>>

NextPuntuacion == PuntuarPar

SpecPuntuacion == InitPuntuacion /\ [][NextPuntuacion]_vars

\* C11: of two inputs that differ in totalDebt only, the one with the larger
\* totalDebt never gets the higher score.
C11_ScoreMonotoneInDebt ==
    resultados # <<>> => resultados[1] >= resultados[2]

\* the larger debt crossed a tier and the score went down
C11_Witness ==
    /\ resultados # <<>>
    /\ argumentos.deuda1 = 500
    /\ argumentos.deuda2 = 501
    /\ resultados[1] > resultados[2]

----------------------------------------------------------------------------
(* C12 *)

\* the record of plate ABC123 after BASE found the vehicle without a
\* prohibition, with one rubro of 150 whose only component is a tax of 150,
\* no payment and no IACV plan
EscenarioAbc123(vd) ==
    /\ vd.placa_original = <<"A", "B", "C", "1", "2", "3">>
    /\ vd.codigo_vehiculo = 42
    /\ vd.prohibido_enajenar = ""
    /\ Len(vd.rubros_deuda) = 1
    /\ vd.rubros_deuda[1].valorRubro = 150
    /\ vd.rubros_deuda[1].nombreCortoBeneficiario = "GAD"
    /\ Len(vd.componentes_deuda) = 1
    /\ vd.componentes_deuda[1].tipo_componente = "IMPUESTO"
    /\ vd.componentes_deuda[1].esNumero
    /\ vd.componentes_deuda[1].valorComponente = 150
    /\ vd.historial_pagos = <<>>
    /\ vd.plan_excepcional_iacv = <<>>

ResultadoAbc123(vd) ==
    /\ vd.consulta_exitosa
    /\ vd.placa_normalizada = <<"A", "B", "C", "0", "1", "2", "3">>
    /\ vd.total_deudas_sri = 150
    /\ vd.puntuacion_sri = 85 * Escala
    /\ vd.estado_legal_sri = "BUENO - DEUDAS MENORES"
    /\ vd.riesgo_tributario = "BAJO"

\* C12: for plate ABC123 with BASE succeeding, exactly one rubro of 150 whose
\* only component is a tax component of 150, and empty payments and IACV
\* plan, the coroutine returns, and the session stores as DONE, a record with
\* normalized plate ABC0123, totalDebt 150, score 85 and the good / low-risk
\* legal status.
C12_EndToEndAbc123 ==
    /\ pc = "completar" /\ EscenarioAbc123(vehicle_data) => ResultadoAbc123(vehicle_data)
    /\ HayResultado /\ EscenarioAbc123(Resultado)
          => Estado = "completado" /\ ResultadoAbc123(Resultado)

C12_Witness ==
    /\ pc = "fin"
    /\ Estado = "completado"
    /\ HayResultado
    /\ EscenarioAbc123(Resultado)
    /\ Resultado.puntuacion_sri = 85 * Escala
    /\ {"consulta_rubros", "consulta_componente", "consulta_pagos", "plan_excepcional"}
          \subseteq Apis(requests)

----------------------------------------------------------------------------
(* C14 *)

\* the session of the model and one that was never started
SesionesConsultadas == {SessionId, "ecplacas_completo_0"}

\* C14: GetResult returns a record only for a session whose tracked state is
\* DONE, and then the record stored for it; for a session that is still
\* running, in ERROR, or unknown, it returns an error and no record.
C14_ResultOnlyWhenDone ==
    \A sid \in SesionesConsultadas :
        LET r == get_consultation_result(sid)
            done == HaySesion(sid) /\ active_consultations[sid].status = "completado"
        IN /\ r.vehicle_data # <<>> => done
           /\ done => r.success /\ r.vehicle_data = active_consultations[sid].result
                               /\ r.vehicle_data # <<>>
           /\ ~done => ~r.success /\ r.error # "" /\ r.code # 200 /\ r.vehicle_data = <<>>

\* GetResult was denied for a session in ERROR, and for an unknown session
C14_Witness ==
    /\ HaySesion(SessionId)
    /\ Estado = "error"
    /\ get_consultation_result(SessionId).code = 500
    /\ get_consultation_result(SessionId).vehicle_data = <<>>
    /\ get_consultation_result("ecplacas_completo_0").code = 404

----------------------------------------------------------------------------
(* C16 *)

\* the steps of the thread: none of them is a call of the caller
PasoThread ==
    \/ Iniciar
    \/ ConsultarPropietario
    \/ ConsultarBase
    \/ ConsultarRubros
    \/ IniciarComponentes
    \/ ConsultarComponentesRubro
    \/ ConsultarPagos
    \/ ConsultarDetallePago
    \/ ConsultarIacv
    \/ Analizar
    \/ MarcarCompletado
    \/ ErrorEnThread

Posicion ==
    CASE pc = "idle" -> 0
      [] pc = "thread" -> 1
      [] pc = "propietario" -> 2
      [] pc = "base" -> 3
      [] pc = "rubros" -> 4
      [] pc = "componentes" -> 5
      [] pc = "comp_loop" -> 6
      [] pc = "pagos" -> 7
      [] pc = "det_loop" -> 8
      [] pc = "iacv" -> 9
      [] pc = "analisis" -> 10
      [] pc = "completar" -> 11
      [] pc = "fin" -> 12

\* the position of the thread, and within a loop the index of the loop
Medida == 100 * Posicion + idx

EnCurso == pc \notin {"idle", "fin"}

\* the thread can take its next step.  In the payment-detail loop and in the
\* analysis the step is a total function of the state and of the response
\* once the payment it is about exists; elsewhere the step is asked for as it
\* is written.
PuedeAvanzar ==
    CASE pc = "det_loop" ->
            LET procesar == PagosAProcesar(vehicle_data.historial_pagos)
            IN /\ idx \in 1..Len(procesar)
               /\ DetalleResponses(procesar[idx].codigoRecaudacion) # {}
      [] pc = "analisis" -> HaySesion(SessionId)
      [] OTHER -> ENABLED PasoThread

\* C16: a started session reaches DONE or ERROR without any further call of
\* the caller, every upstream call returning or timing out: while the thread
\* runs its next step can always be taken and needs no call of the caller,
\* every step moves the thread forward in a bounded measure, and when the
\* thread has ended the tracked state is DONE or ERROR.
C16_SessionTerminates ==
    /\ [](EnCurso => PuedeAvanzar)
    /\ [](idx >= 0 /\ idx < 100)
    /\ [][EnCurso => Medida' > Medida]_vars
    /\ [](pc = "fin" => HaySesion(SessionId) /\ Estado \in {"completado", "error"})

\* a session ended after both loops ran
C16_Witness ==
    /\ pc = "fin"
    /\ Estado = "completado"
    /\ {"consulta_componente", "detalle_pagos"} \subseteq Apis(requests)

----------------------------------------------------------------------------
(* The session tracker after the threads have ended: time passes, callers  *)
(* poll, and POST /api/limpiar-cache may be called.                        *)

MaxTics == 4

\* (datetime.now() - consultation_datetime).total_seconds() > 7200
Retencion == 7200

\* the step of the clock: half the retention, in milliseconds
MedioPlazo == (Retencion * 1000) \div 2

SesionesTerminadas == {SessionId, "ecplacas_completo_2"}

\* the sessions a caller asks for: the tracked ones and one never started
SesionesPedidas == SesionesTerminadas \cup {"ecplacas_completo_0"}

\* the record of a vehicle without rubros, payments or plan
RegistroTerminado ==
    AnalisisCompleto(VehicleDataSRI(normalize_plate(<<"A", "B", "C", "1", "2", "3">>)[1],
                                    normalize_plate(<<"A", "B", "C", "1", "2", "3">>)[2]))

InitSesiones ==
    /\ pc = "idle"
    /\ placa = <<>>
    /\ cedula = <<>>
    /\ http = <<>>
    /\ vehicle_data = SinDatos
    /\ codigo_vehiculo = 0
    /\ idx = 0
    /\ acumulado = <<>>
    /\ response = <<>>
    /\ requests = <<>>
    /\ reloj = 1
    /\ InicioFn
    /\ InicioClientes
    /\ active_consultations \in
          [SesionesTerminadas -> {EntradaCompletado(RegistroTerminado), EntradaError}]

PasaElTiempo ==
    /\ reloj < 1 + MaxTics * MedioPlazo
    /\ reloj' = reloj + MedioPlazo
    /\ UNCHANGED <<vars_pipeline, vars_fn, vars_clientes>>

\* the sessions POST /api/limpiar-cache removes: those whose 'timestamp' is
\* more than two hours old
sessions_to_remove ==
    { sid \in DOMAIN active_consultations :
        /\ active_consultations[sid].timestamp # <<>>
        /\ reloj - active_consultations[sid].timestamp[1] > Retencion * 1000 }

\* POST /api/limpiar-cache
clear_system_cache ==
    /\ active_consultations' =
          [sid \in DOMAIN active_consultations \ sessions_to_remove |-> active_consultations[sid]]
    /\ http' = [code |-> 200, sessions_removed |-> Cardinality(sessions_to_remove)]
    /\ UNCHANGED <<pc, placa, vehicle_data, codigo_vehiculo, idx, acumulado, response,
                   requests, cedula, reloj, vars_fn, vars_clientes>>

\* GET /api/estado-consulta/<session_id> by some caller
PollStatus ==
    /\ \E sid \in SesionesPedidas : http' = get_consultation_status(sid)
    /\ UNCHANGED <<active_consultations, pc, placa, vehicle_data, codigo_vehiculo, idx,
                   acumulado, response, requests, cedula, reloj, vars_fn, vars_clientes>>

\* GET /api/resultado/<session_id> by some caller
PollResult ==
    /\ \E sid \in SesionesPedidas : http' = get_consultation_result(sid)
    /\ UNCHANGED <<active_consultations, pc, placa, vehicle_data, codigo_vehiculo, idx,
                   acumulado, response, requests, cedula, reloj, vars_fn, vars_clientes>>

NextSesiones ==
    \/ PasaElTiempo
    \/ clear_system_cache
    \/ PollStatus
    \/ PollResult

\* time passes whatever the callers do; no call of an endpoint is guaranteed
SpecSesiones == InitSesiones /\ [][NextSesiones]_vars /\ WF_vars(PasaElTiempo)

\* C15: every session that has reached DONE or ERROR is eventually removed
\* from the session tracker once the retention window has passed, whether or
\* not a caller ever reads its status or result.
C15_FinishedSessionRemoved ==
    \A sid \in SesionesTerminadas : HaySesion(sid) ~> ~HaySesion(sid)

----------------------------------------------------------------------------
(* The rate limiters, used by one caller: VehicleConsultantSRI has one for  *)
(* all its endpoints, VehicleScraper one per API.  Time is in milliseconds. *)

MaxLlamadas == 3
MaxTicsLimitador == 6

\* if time_since_last < 1.0
IntervaloSri == 1000

\* the endpoints of a consultation: the owner API and two of the SRI
EndpointsSri == {"owner_primary", "base_vehiculo", "consulta_rubros"}

\* VehicleScraperConfig.APIS
ApisScraper == {"ant_principal", "ant_backup"}

\* api_config.get("rate_limit", 1.0)
rate_limit(api_name) ==
    CASE api_name = "ant_principal" -> 1000
      [] api_name = "ant_backup" -> 1500
      [] OTHER -> 1000

\* a sleep of half the time that is missing
sleep_time_mitad(elapsed, intervalo) ==
    IF elapsed < intervalo THEN (intervalo - elapsed) \div 2 ELSE 0

\* sleep_time = rate_limit - elapsed when elapsed < rate_limit
sleep_time(elapsed, intervalo) ==
    IF elapsed < intervalo THEN intervalo - elapsed ELSE 0

\* a call started: who limited it, its endpoint group, when the limiter was
\* entered and when it returned (the request follows at once)
Llamada(limitador, grupo, pedido, inicio) ==
    [limitador |-> limitador, grupo |-> grupo, pedido |-> pedido, inicio |-> inicio]

\* time.sleep(t) lasts t or longer
Duraciones(t) == IF t = 0 THEN {0} ELSE {t, t + 500}

InitLimitador ==
    /\ InicioPipeline
    /\ reloj = 1
    /\ InicioFn
    /\ InicioClientes

TicLimitador ==
    /\ reloj < 1 + 500 * MaxTicsLimitador
    /\ reloj' = reloj + 500
    /\ UNCHANGED <<vars_pipeline, vars_fn, vars_clientes>>

\* VehicleConsultantSRI._apply_rate_limiting(), then the request to endpoint
apply_rate_limiting ==
    /\ Len(llamadas) < MaxLlamadas
    /\ \E endpoint \in EndpointsSri :
          \E d \in Duraciones(IF last_request_time_sri > 0
                              THEN sleep_time(reloj - last_request_time_sri, IntervaloSri)
                              ELSE 0) :
              /\ reloj' = reloj + d
              /\ last_request_time_sri' = reloj + d
              /\ llamadas' = Append(llamadas, Llamada("sri", endpoint, reloj, reloj + d))
    /\ UNCHANGED <<vars_pipeline, vars_fn, last_request_time, envio, vars_cache, hilos>>

\* VehicleScraper._apply_rate_limit(api_name), then the request to the API
apply_rate_limit ==
    /\ Len(llamadas) < MaxLlamadas
    /\ \E api_name \in ApisScraper :
          \E d \in Duraciones(IF api_name \in DOMAIN last_request_time
                              THEN sleep_time(reloj - last_request_time[api_name],
                                              rate_limit(api_name))
                              ELSE 0) :
              /\ reloj' = reloj + d
              /\ last_request_time' =
                    [a \in DOMAIN last_request_time \cup {api_name} |->
                        IF a = api_name THEN reloj + d ELSE last_request_time[a]]
              /\ llamadas' = Append(llamadas, Llamada("scraper", api_name, reloj, reloj + d))
    /\ UNCHANGED <<vars_pipeline, vars_fn, last_request_time_sri, envio, vars_cache, hilos>>

NextLimitador ==
    \/ TicLimitador
    \/ apply_rate_limiting
    \/ apply_rate_limit

SpecLimitador == InitLimitador /\ [][NextLimitador]_vars

\* the configured spacing of a call
Espaciado(l) == IF l.limitador = "sri" THEN IntervaloSri ELSE rate_limit(l.grupo)

MismoGrupo(a, b) == a.limitador = b.limitador /\ a.grupo = b.grupo

\* the calls of llamadas[i]'s group from i to j
DelGrupo(i, j) == { k \in i..j : MismoGrupo(llamadas[k], llamadas[i]) }

\* C17: the calls one caller makes to the same endpoint group start at least
\* the configured spacing apart, so N of them take at least (N-1) * spacing
\* from the first start to the last.
C17_SameGroupSpaced ==
    \A i \in DOMAIN llamadas : \A j \in DOMAIN llamadas :
        (i < j /\ MismoGrupo(llamadas[i], llamadas[j])) =>
            llamadas[j].inicio - llamadas[i].inicio
                >= (Cardinality(DelGrupo(i, j)) - 1) * Espaciado(llamadas[i])

\* three calls to the backup API, the second and the third of them delayed
C17_Witness ==
    /\ Len(llamadas) = 3
    /\ \A i \in 1..3 : llamadas[i].limitador = "scraper" /\ llamadas[i].grupo = "ant_backup"
    /\ llamadas[2].inicio > llamadas[2].pedido
    /\ llamadas[3].inicio > llamadas[3].pedido
    /\ llamadas[3].inicio - llamadas[1].inicio = 2 * rate_limit("ant_backup")

\* C18: the spacing is tracked per endpoint group: a call is delayed only
\* when a call to the same group started less than the spacing before it.
C18_DelayOnlyBySameGroup ==
    \A j \in DOMAIN llamadas :
        llamadas[j].inicio > llamadas[j].pedido =>
            \E i \in 1..(j - 1) :
                /\ MismoGrupo(llamadas[i], llamadas[j])
                /\ llamadas[j].pedido - llamadas[i].inicio < Espaciado(llamadas[j])

----------------------------------------------------------------------------
(* One outbound call through a session whose adapter carries                *)
(* Retry(total=3, status_forcelist=[429, 500, 502, 503, 504],               *)
(* allowed_methods=[...], backoff_factor=1): the attempts urllib3 makes.    *)

\* Retry(total=3, ...)
RetryTotal == 3

status_forcelist == {429, 500, 502, 503, 504}

\* Retry.RETRY_AFTER_STATUS_CODES, honoured because respect_retry_after_header
\* keeps its default
RETRY_AFTER_STATUS_CODES == {413, 429, 503}

allowed_methods(sesion) ==
    IF sesion = "sri" THEN {"HEAD", "GET", "OPTIONS", "POST"} ELSE {"HEAD", "GET", "OPTIONS"}

\* what one attempt can end with: a response, with or without a Retry-After
\* header, or an error of the transport
Respuestas ==
    [tipo : {"respuesta"}, status : {200, 404, 413, 429, 503}, retry_after : BOOLEAN]

Errores ==
    [tipo : {"ConnectTimeoutError", "ReadTimeoutError", "NewConnectionError"},
     status : {0}, retry_after : {FALSE}]

Desenlaces == Respuestas \cup Errores

EsTimeout(o) == o.tipo \in {"ConnectTimeoutError", "ReadTimeoutError"}

\* the sessions and the methods the code uses on them
NuevosEnvios ==
    { [sesion |-> e[1], method |-> e[2], total |-> RetryTotal, history |-> <<>>,
       estado |-> "en_curso"] :
        e \in {<<"sri", "GET">>, <<"sri", "POST">>, <<"scraper", "GET">>} }

_is_method_retryable(sesion, method) == method \in allowed_methods(sesion)

\* a policy that retries on every error status
is_retry_todo_error(sesion, method, status_code, has_retry_after) ==
    _is_method_retryable(sesion, method) /\ status_code >= 400

is_retry(sesion, method, status_code, has_retry_after) ==
    /\ _is_method_retryable(sesion, method)
    /\ \/ status_code \in status_forcelist
       \/ has_retry_after /\ status_code \in RETRY_AFTER_STATUS_CODES

\* an error of the transport is retried, except a read error of a method that
\* is not allowed
ErrorReintentable(sesion, method, o) ==
    o.tipo = "ReadTimeoutError" => _is_method_retryable(sesion, method)

\* Retry.is_exhausted() of the Retry with this total
is_exhausted(total) == total < 0

InitReintentos ==
    /\ InicioPipeline
    /\ reloj = 1
    /\ InicioFn
    /\ InicioLimitador
    /\ InicioCache
    /\ InicioHilos
    /\ envio \in NuevosEnvios

\* one attempt of the call and what urlopen does with its outcome
Intentar ==
    /\ envio.estado = "en_curso"
    /\ \E o \in Desenlaces :
          LET reintenta ==
                  IF o.tipo = "respuesta"
                  THEN is_retry(envio.sesion, envio.method, o.status, o.retry_after)
                  ELSE ErrorReintentable(envio.sesion, envio.method, o)
              estado ==
                  IF reintenta
                  THEN IF is_exhausted(envio.total - 1) THEN "MaxRetryError" ELSE "en_curso"
                  ELSE IF o.tipo = "respuesta" THEN "devuelta" ELSE "error"
          IN envio' = [envio EXCEPT !.history = Append(@, o),
                                    !.total = IF reintenta THEN @ - 1 ELSE @,
                                    !.estado = estado]
    /\ UNCHANGED <<vars_pipeline, reloj, vars_fn, vars_limitador, vars_cache, hilos>>

NextReintentos == Intentar

SpecReintentos == InitReintentos /\ [][NextReintentos]_vars

\* attempt i was followed by another attempt
Reintentado(i) == i < Len(envio.history)

\* attempt i ended the call
UltimoIntento(i) == i = Len(envio.history) /\ envio.estado # "en_curso"

\* C19 as stated: at most 4 attempts (one and up to 3 retries); a retry
\* happens only after a 429, 500, 502, 503 or 504 response or a timeout; a
\* 4xx response other than 429 ends the call at that attempt.
C19_RetryOnlyOnListedStatusOrTimeout ==
    /\ Len(envio.history) <= 1 + RetryTotal
    /\ \A i \in DOMAIN envio.history :
          LET o == envio.history[i]
          IN /\ Reintentado(i) =>
                   \/ o.tipo = "respuesta" /\ o.status \in status_forcelist
                   \/ EsTimeout(o)
             /\ (o.tipo = "respuesta" /\ o.status \in 400..499 /\ o.status # 429)
                   => UltimoIntento(i)

\* C19 amended: at most 4 attempts; a retry happens only after a 429, 500,
\* 502, 503 or 504 response, after a 413 response that carries Retry-After,
\* or after an error of the transport (a timeout or a failed connection);
\* every other response, a 4xx without Retry-After other than 429 among
\* them, ends the call at that attempt; after the fourth attempt failed the
\* call ends with an error.
C19_RetryPolicy ==
    /\ Len(envio.history) <= 1 + RetryTotal
    /\ \A i \in DOMAIN envio.history :
          LET o == envio.history[i]
          IN /\ Reintentado(i) =>
                   \/ o.tipo = "respuesta" /\ o.status \in status_forcelist
                   \/ o.tipo = "respuesta" /\ o.status = 413 /\ o.retry_after
                   \/ o.tipo # "respuesta"
             /\ ( /\ o.tipo = "respuesta"
                  /\ o.status \notin status_forcelist
                  /\ ~(o.status = 413 /\ o.retry_after) )
                   => UltimoIntento(i) /\ envio.estado = "devuelta"
    /\ (Len(envio.history) = 1 + RetryTotal /\ envio.estado # "devuelta")
          => envio.estado = "MaxRetryError"

\* four attempts: a refused connection, a 413 with Retry-After and a 503 were
\* retried, the 404 that followed was returned
C19_Witness ==
    /\ Len(envio.history) = 4
    /\ envio.history[1].tipo = "NewConnectionError"
    /\ envio.history[2].status = 413 /\ envio.history[2].retry_after
    /\ envio.history[3].status = 503
    /\ envio.history[4].status = 404
    /\ envio.estado = "devuelta"

----------------------------------------------------------------------------
(* VehicleCache.  Time is in milliseconds; a key is the text                *)
(* f"{placa}_{api_name}", whose md5 digest the code uses.                   *)

\* VehicleCache(max_entries=...): the capacity, 1000 in CACHE_CONFIG
max_entries == 2
MaxTicsCache == 3

\* CACHE_CONFIG["ttl_hours"]
ttl_hours == 24

\* the time after which age_hours reaches ttl_hours
TtlMs == ttl_hours * 3600 * 1000

PlacasCache == { <<"A", "B", "C", "1", "2", "3">>, <<"P", "B", "X", "1", "2", "3", "4">> }
ApisCache == { <<"ant", "_", "principal">>, <<"ant", "_", "backup">> }
Payloads == {"datos1", "datos2"}

\* a key that leaves the plate out
clave_sin_placa(p, api_name) == api_name

\* VehicleCache._generate_key: the digest of "{placa}_{api_name}", one key for
\* each pair
_generate_key(p, api_name) == p \o <<"_">> \o api_name

\* age_hours < self.ttl_hours
Vigente(entry, now) == now - entry.timestamp < TtlMs

\* a function without the keys of quitar
SinClaves(f, quitar) == [k \in DOMAIN f \ quitar |-> f[k]]

\* a function with f[key] = v
ConClave(f, key, v) == [k \in DOMAIN f \cup {key} |-> IF k = key THEN v ELSE f[k]]

\* a reading that answers with whatever is stored
get_sin_ttl(c, a, key, now) ==
    IF key \in DOMAIN c
    THEN [data |-> <<c[key].data>>, cache |-> c, access_times |-> a]
    ELSE [data |-> <<>>, cache |-> c, access_times |-> a]

\* VehicleCache.get: data is <<payload>> on a hit and <<>> on a miss (None)
get(c, a, key, now) ==
    IF key \in DOMAIN c
    THEN IF Vigente(c[key], now)
         THEN [data |-> <<c[key].data>>, cache |-> c, access_times |-> ConClave(a, key, now)]
         ELSE [data |-> <<>>, cache |-> SinClaves(c, {key}),
               access_times |-> SinClaves(a, {key})]
    ELSE [data |-> <<>>, cache |-> c, access_times |-> a]

\* sorted(access_times, reverse=True)[:remove_count]: the most recently accessed
MasAccedidas(a) ==
    LET n == Cardinality(DOMAIN a)
        remove_count == Max(1, n \div 5)
    IN { q \in SUBSET DOMAIN a :
            /\ Cardinality(q) = Min(remove_count, n)
            /\ \A r \in q : \A k \in DOMAIN a \ q : a[r] >= a[k] }

\* the keys _cleanup_cache may remove as least recently accessed: remove_count
\* keys none of which was accessed after a key that stays (sorted() keeps the
\* order of insertion among equal times; any such order is allowed here)
MenosAccedidas(a) ==
    LET n == Cardinality(DOMAIN a)
        remove_count == Max(1, n \div 5)
    IN { q \in SUBSET DOMAIN a :
            /\ Cardinality(q) = Min(remove_count, n)
            /\ \A r \in q : \A k \in DOMAIN a \ q : a[r] <= a[k] }

\* a cleanup that removes the expired entries and nothing else
cleanup_solo_expiradas(c, a, now, capacidad) ==
    LET expired_keys == { k \in DOMAIN c : ~Vigente(c[k], now) }
    IN { <<SinClaves(c, expired_keys), SinClaves(a, expired_keys)>> }

\* _cleanup_cache of a VehicleCache built with max_entries = capacidad: the
\* possible <<cache, access_times>> after it
cleanup_en(c, a, now, capacidad) ==
    LET expired_keys == { k \in DOMAIN c : ~Vigente(c[k], now) }
        c1 == SinClaves(c, expired_keys)
        a1 == SinClaves(a, expired_keys)
    IN IF Cardinality(DOMAIN c1) >= capacidad
       THEN { <<SinClaves(c1, q), SinClaves(a1, q)>> : q \in MenosAccedidas(a1) }
       ELSE { <<c1, a1>> }

\* VehicleCache._cleanup_cache: the possible <<cache, access_times>> after it
_cleanup_cache(c, a, now) == cleanup_en(c, a, now, max_entries)

\* set of a VehicleCache built with max_entries = capacidad: the possible
\* <<cache, access_times>> after it
set_en(c, a, p, api_name, data, now, capacidad) ==
    LET key == _generate_key(p, api_name)
        limpios == IF Cardinality(DOMAIN c) >= capacidad
                   THEN cleanup_en(c, a, now, capacidad)
                   ELSE { <<c, a>> }
    IN { << ConClave(l[1], key, [data |-> data, timestamp |-> now, placa |-> p,
                                 api |-> api_name]),
            ConClave(l[2], key, now) >> : l \in limpios }

\* VehicleCache.set: the possible <<cache, access_times>> after it
set(c, a, p, api_name, data, now) == set_en(c, a, p, api_name, data, now, max_entries)

InitCache ==
    /\ InicioPipeline
    /\ reloj = 1
    /\ InicioFn
    /\ InicioLimitador
    /\ InicioEnvio
    /\ InicioCache
    /\ InicioHilos

TicCache ==
    /\ reloj < 1 + MaxTicsCache * (TtlMs \div 2)
    /\ reloj' = reloj + (TtlMs \div 2)
    /\ lectura' = <<>>
    /\ UNCHANGED <<vars_pipeline, vars_fn, vars_limitador, envio, cache, access_times,
                   ultimo_set, hilos, _validation_cache>>

\* a caller stores a payload
Set ==
    /\ \E p \in PlacasCache, api_name \in ApisCache, data \in Payloads :
          /\ \E r \in set(cache, access_times, p, api_name, data, reloj) :
                /\ cache' = r[1]
                /\ access_times' = r[2]
          /\ ultimo_set' = [key |-> _generate_key(p, api_name), data |-> data, t |-> reloj]
    /\ lectura' = <<>>
    /\ UNCHANGED <<vars_pipeline, reloj, vars_fn, vars_limitador, envio, hilos,
                   _validation_cache>>

\* a caller reads
Get ==
    /\ \E p \in PlacasCache, api_name \in ApisCache :
          LET r == get(cache, access_times, _generate_key(p, api_name), reloj)
          IN /\ cache' = r.cache
             /\ access_times' = r.access_times
             /\ lectura' = [key |-> _generate_key(p, api_name), data |-> r.data]
    /\ UNCHANGED <<vars_pipeline, reloj, vars_fn, vars_limitador, envio, ultimo_set, hilos,
                   _validation_cache>>

NextCache ==
    \/ TicCache
    \/ Set
    \/ Get

SpecCache == InitCache /\ [][NextCache]_vars

\* the key just read is the key of the latest set, and no set followed it
LeeLoGuardado ==
    /\ lectura # <<>>
    /\ ultimo_set # <<>>
    /\ lectura.key = ultimo_set.key

\* C20: after Set(plate, endpoint, payload), with no Set after it,
\* Get(plate, endpoint) returns that payload as a hit as long as less than
\* the TTL has elapsed since the Set, whatever the cache held when the Set was
\* made, a full cache included; once the TTL has elapsed Get returns a miss
\* and the expired entry is no longer in the cache.
C20_SetThenGet ==
    LeeLoGuardado =>
        IF reloj - ultimo_set.t < TtlMs
        THEN /\ lectura.data = <<ultimo_set.data>>
             /\ lectura.key \in DOMAIN cache
        ELSE /\ lectura.data = <<>>
             /\ lectura.key \notin DOMAIN cache
             /\ lectura.key \notin DOMAIN access_times

\* a payload stored into a full cache, which evicted another entry, was read
\* back before the TTL
C20_Witness ==
    /\ LeeLoGuardado
    /\ reloj - ultimo_set.t < TtlMs
    /\ reloj > ultimo_set.t
    /\ lectura.data = <<ultimo_set.data>>
    /\ Cardinality(DOMAIN cache) = max_entries
    /\ \E k \in DOMAIN cache : cache[k].timestamp < ultimo_set.t

\* an expired entry was read and removed
C20_WitnessExpired ==
    /\ LeeLoGuardado
    /\ reloj - ultimo_set.t >= TtlMs
    /\ lectura.data = <<>>

\* ---------------------------------------------------------------------------
\* VehicleCache.set on a full cache: the cleanup as a function of the cache
\* ---------------------------------------------------------------------------

\* entries of the full cache the cleanup is applied to
CapacidadLimpieza == 10

\* the api whose responses fill the cache
ApiLimpieza == <<"ant", "_", "principal">>

\* the decimal digit of value i
Cifra(i) == CHOOSE d \in DigitosDecimales : ValorDigito(d) = i

\* the i-th plate stored in the full cache
PlacaNumero(i) == <<"P", "B", "X", "0", Cifra((i \div 10) % 10), Cifra(i % 10)>>

\* the key of the i-th entry
ClaveNumero(i) == _generate_key(PlacaNumero(i), ApiLimpieza)

\* the index of a key of the full cache
NumeroDeClave(k) == CHOOSE i \in 0..CapacidadLimpieza : ClaveNumero(i) = k

\* orders in which the entries were last accessed
Patrones == {"creciente", "decreciente", "salteado", "empates"}

\* offset in ms of the last access of the i-th entry
Desfase(patron, i) ==
    CASE patron = "creciente" -> i
      [] patron = "decreciente" -> CapacidadLimpieza + 1 - i
      [] patron = "salteado" -> ((3 * i) % CapacidadLimpieza) + 1
      [] OTHER -> (i % 3) + 1

\* the instant of the set
Ahora == 2 * TtlMs

\* a cache of CapacidadLimpieza entries whose first `expiradas` are as old as
\* the ttl; an expired entry was last read just before it expired (reciente)
\* or never after it was stored
CacheLleno(expiradas, patron, reciente) ==
    LET nacio(i) == IF i <= expiradas THEN Ahora - TtlMs - 100 ELSE Ahora - 1000
        acceso(i) == IF i <= expiradas /\ reciente
                     THEN Ahora - 200 + Desfase(patron, i)
                     ELSE nacio(i) + Desfase(patron, i)
        claves == { ClaveNumero(i) : i \in 1..CapacidadLimpieza }
    IN [ c |-> [ k \in claves |->
                   [ data |-> "datos1", timestamp |-> nacio(NumeroDeClave(k)),
                     placa |-> PlacaNumero(NumeroDeClave(k)), api |-> ApiLimpieza ] ],
         a |-> [ k \in claves |-> acceso(NumeroDeClave(k)) ] ]

InitLimpieza ==
    /\ InicioPipeline
    /\ reloj = Ahora
    /\ InicioClientes
    /\ \E expiradas \in 0..CapacidadLimpieza, patron \in Patrones,
          reciente \in BOOLEAN, nueva \in {0, 1} :
          argumentos = [ lleno |-> CacheLleno(expiradas, patron, reciente),
                         placa |-> PlacaNumero(nueva) ]
    /\ resultados = <<>>

\* cache.set(placa, api_name, data) on the full cache
SetEnLleno ==
    /\ resultados = <<>>
    /\ resultados' \in set_en(argumentos.lleno.c, argumentos.lleno.a, argumentos.placa,
                              ApiLimpieza, "datos1", reloj, CapacidadLimpieza)
    /\ UNCHANGED <<vars_pipeline, reloj, argumentos, vars_clientes>>

NextLimpieza == SetEnLleno

SpecLimpieza == InitLimpieza /\ [][NextLimpieza]_vars

\* keys of the full cache that are expired at the set
ExpiradasAntes == { k \in DOMAIN argumentos.lleno.c :
                      ~Vigente(argumentos.lleno.c[k], reloj) }

\* keys of the full cache that are live at the set
VivasAntes == DOMAIN argumentos.lleno.c \ ExpiradasAntes

\* the key the set writes
ClaveEscrita == _generate_key(argumentos.placa, ApiLimpieza)

\* live entries the set removed (the written key is stored again by the set)
Desalojadas == { k \in VivasAntes \ {ClaveEscrita} : k \notin DOMAIN resultados[1] }

\* live entries that are still cached after the set
Sobrevivientes == { k \in VivasAntes \ {ClaveEscrita} : k \in DOMAIN resultados[1] }

\* C21: a set on a cache at capacity first drops every expired entry; live
\* entries are evicted only when the cache is still at capacity after that,
\* and then the evicted ones are the least recently accessed fifth (at least
\* one): no evicted entry was accessed later than an entry that survives
C21_EvictionOrder ==
    resultados # <<>> =>
        LET n == Cardinality(VivasAntes)
            remove_count == Max(1, n \div 5)
        IN /\ \A k \in ExpiradasAntes \ {ClaveEscrita} : k \notin DOMAIN resultados[1]
           /\ n < CapacidadLimpieza => Desalojadas = {}
           /\ n >= CapacidadLimpieza =>
                 /\ Cardinality(Desalojadas) <= remove_count
                 /\ Cardinality(Desalojadas) >= remove_count - 1
                 /\ ClaveEscrita \notin VivasAntes =>
                       Cardinality(Desalojadas) = remove_count
                 /\ \A r \in Desalojadas : \A k \in Sobrevivientes :
                       argumentos.lleno.a[r] <= argumentos.lleno.a[k]
           /\ DOMAIN resultados[2] = DOMAIN resultados[1]

\* a full cache of live entries lost its two least recently accessed ones
C21_Witness ==
    /\ resultados # <<>>
    /\ ExpiradasAntes = {}
    /\ Cardinality(Desalojadas) = 2
    /\ \A r \in Desalojadas : \A k \in Sobrevivientes :
          argumentos.lleno.a[r] < argumentos.lleno.a[k]

\* expired entries were dropped and every live entry was kept, although an
\* expired entry had been read later than a live one
C21_WitnessPurge ==
    /\ resultados # <<>>
    /\ ExpiradasAntes # {}
    /\ VivasAntes # {}
    /\ Desalojadas = {}
    /\ \E e \in ExpiradasAntes : \E k \in VivasAntes :
          argumentos.lleno.a[e] > argumentos.lleno.a[k]

\* ---------------------------------------------------------------------------
\* VehicleScraper.consultar_vehiculo: the lookup through the cache
\* ---------------------------------------------------------------------------

MaxTicsConsulta == 2

\* config.APIS in order, all active
apis_ordenadas == << <<"ant", "_", "principal">>, <<"ant", "_", "backup">> >>

\* plates asked for: two spellings of one plate, another plate, a malformed one
PlacasConsulta ==
    { <<"A", "B", "C", "1", "2", "3">>,
      <<"a", "b", "c", "-", "0", "1", "2", "3">>,
      <<"P", "B", "X", "1", "2", "3", "4">>,
      <<"A", "B", "1", "2">> }

\* ValidadorEcuatoriano.validar_placa: es_valida and placa_normalizada
validar_placa(p) ==
    LET placa_clean == PlacaClean(p)
        invalida == [es_valida |-> FALSE, placa_normalizada |-> <<>>]
    IN IF p = <<>> THEN invalida
       ELSE IF Len(placa_clean) < 6 \/ Len(placa_clean) > 7 THEN invalida
       ELSE IF ~MatchFormato(placa_clean, FALSE) THEN invalida
       ELSE IF Len(placa_clean) = 6 /\ MatchTresDigitos(placa_clean) = 3
       THEN [es_valida |-> TRUE,
             placa_normalizada |-> SubSeq(placa_clean, 1, 3) \o <<"0">>
                                      \o SubSeq(placa_clean, 4, 6)]
       ELSE [es_valida |-> TRUE, placa_normalizada |-> placa_clean]

\* the plates the apis are asked about
PlacasNormalizadas ==
    { validar_placa(p).placa_normalizada : p \in { q \in PlacasConsulta : validar_placa(q).es_valida } }

\* what _consultar_api can return for a plate: None, an error body, vehicle data
RespuestasApi(pn, api_name) ==
    { [codError |-> "None", campos |-> <<>>],
      [codError |-> "1", campos |-> <<>>],
      [codError |-> "0", campos |-> <<pn, api_name>>] }

\* the answers of the apis, the same at every lookup
Upstreams ==
    { u \in [PlacasNormalizadas \X {1, 2} -> UNION { RespuestasApi(pn, apis_ordenadas[i]) :
                                                      pn \in PlacasNormalizadas, i \in {1, 2} }] :
        \A pn \in PlacasNormalizadas, i \in {1, 2} :
            u[<<pn, i>>] \in RespuestasApi(pn, apis_ordenadas[i]) }

\* VehicleScraper._validar_respuesta
_validar_respuesta(data) ==
    /\ data.codError # "None"
    /\ data.codError = "0"
    /\ data.campos # <<>>

\* VehiculoCompleto after procesar_datos_api(response)
VehiculoExitoso(pn, api_response) ==
    [consulta_exitosa |-> TRUE, numero_placa |-> pn, datos |-> api_response.campos]

\* VehiculoCompleto of a lookup that found nothing
VehiculoFallido(pn) ==
    [consulta_exitosa |-> FALSE, numero_placa |-> pn, datos |-> <<>>]

\* the loop over apis_ordenadas from the i-th api on: the possible outcomes
RECURSIVE IntentarApis(_, _, _, _, _, _, _)
IntentarApis(i, c, a, upstream, pn, now, con_cache) ==
    IF i > Len(apis_ordenadas)
    THEN { [vehiculo |-> VehiculoFallido(pn), desde_cache |-> FALSE,
            cache |-> c, access_times |-> a] }
    ELSE LET api_name == apis_ordenadas[i]
             leido == IF con_cache
                      THEN get(c, a, _generate_key(pn, api_name), now)
                      ELSE [data |-> <<>>, cache |-> c, access_times |-> a]
             api_response == upstream[<<pn, i>>]
         IN IF leido.data # <<>>
            THEN { [vehiculo |-> VehiculoExitoso(pn, leido.data[1]), desde_cache |-> TRUE,
                    cache |-> leido.cache, access_times |-> leido.access_times] }
            ELSE IF _validar_respuesta(api_response)
            THEN { [vehiculo |-> VehiculoExitoso(pn, api_response), desde_cache |-> FALSE,
                    cache |-> g[1], access_times |-> g[2]] :
                   g \in IF con_cache
                         THEN set(leido.cache, leido.access_times, pn, api_name,
                                  api_response, now)
                         ELSE { <<c, a>> } }
            ELSE IntentarApis(i + 1, leido.cache, leido.access_times, upstream, pn, now,
                              con_cache)

\* VehicleScraper.consultar_vehiculo: the possible outcomes
consultar_vehiculo(c, a, upstream, p, now, con_cache) ==
    IF ~validar_placa(p).es_valida
    THEN { [vehiculo |-> VehiculoFallido(p), desde_cache |-> FALSE,
            cache |-> c, access_times |-> a] }
    ELSE IntentarApis(1, c, a, upstream, validar_placa(p).placa_normalizada, now, con_cache)

InitConsulta ==
    /\ InicioPipeline
    /\ reloj = 1
    /\ InicioClientes
    /\ argumentos \in Upstreams
    /\ resultados = <<>>

\* time passes: half a ttl
TicConsulta ==
    /\ reloj < 1 + MaxTicsConsulta * (TtlMs \div 2)
    /\ reloj' = reloj + (TtlMs \div 2)
    /\ UNCHANGED <<vars_pipeline, vars_fn, vars_clientes>>

\* scraper.consultar_vehiculo(p) on the scraper built with use_cache=True
ConsultarVehiculo ==
    \E p \in PlacasConsulta :
        \E r \in consultar_vehiculo(cache, access_times, argumentos, p, reloj, TRUE) :
            /\ cache' = r.cache
            /\ access_times' = r.access_times
            /\ resultados' = [placa |-> p, vehiculo |-> r.vehiculo,
                              desde_cache |-> r.desde_cache]
            /\ UNCHANGED <<vars_pipeline, reloj, argumentos, vars_limitador, envio,
                           ultimo_set, lectura, hilos, _validation_cache>>

NextConsulta == TicConsulta \/ ConsultarVehiculo

SpecConsulta == InitConsulta /\ [][NextConsulta]_vars

\* the vehicle a scraper built with use_cache=False returns for the same answers
SinCache(upstream, p) ==
    { r.vehiculo : r \in consultar_vehiculo(<<>>, <<>>, upstream, p, 1, FALSE) }

\* C22: for the same plate and the same answers of the apis, the lookup returns
\* the vehicle data and the success flag it returns with the cache disabled,
\* whether its cache is empty or already holds answers
C22_CacheIsPureOptimization ==
    resultados # <<>> => SinCache(argumentos, resultados.placa) = {resultados.vehiculo}

\* a lookup was answered from the cache while other entries were cached too
C22_Witness ==
    /\ resultados # <<>>
    /\ resultados.desde_cache
    /\ resultados.vehiculo.consulta_exitosa
    /\ Cardinality(DOMAIN cache) >= 2

\* ---------------------------------------------------------------------------
\* PlateValidator.normalize_plate applied to its own output
\* ---------------------------------------------------------------------------

MaxLenPlaca == 6

\* characters of the plates typed in: a letter, a lowercase letter, a digit, a hyphen
AlfabetoPlaca == {"A", "b", "1", "-"}

\* every string of at most MaxLenPlaca characters
PlacasTecleadas == UNION { [1..n -> AlfabetoPlaca] : n \in 0..MaxLenPlaca }

InitPlacas ==
    /\ InicioPipeline
    /\ reloj = 1
    /\ InicioClientes
    /\ argumentos \in PlacasTecleadas
    /\ resultados = <<>>

\* normalize_plate(p), then normalize_plate of the normalized plate it returned
NormalizarDosVeces ==
    /\ resultados = <<>>
    /\ resultados' = [ primera |-> normalize_plate(argumentos),
                       segunda |-> normalize_plate(normalize_plate(argumentos)[2]) ]
    /\ UNCHANGED <<vars_pipeline, reloj, argumentos, vars_clientes>>

NextPlacas == NormalizarDosVeces

SpecPlacas == InitPlacas /\ [][NextPlacas]_vars

\* C23 as stated: normalize_plate of the normalized plate returns the very
\* result normalize_plate returned for the input
C23_SameResult ==
    resultados # <<>> => resultados.segunda = resultados.primera

\* C23: normalize_plate of the normalized plate returns the same normalized
\* plate; the whole result is the same exactly when the input was already
\* clean and not modified
C23_SameNormalized ==
    resultados # <<>> =>
        /\ resultados.segunda[2] = resultados.primera[2]
        /\ (resultados.segunda = resultados.primera) <=>
              (~resultados.primera[3] /\ resultados.primera[1] = resultados.primera[2])

\* a plate that got its zero: the second result differs in original and flag
C23_Witness ==
    /\ resultados # <<>>
    /\ resultados.primera[3]
    /\ resultados.segunda # resultados.primera
    /\ resultados.segunda[2] = resultados.primera[2]

\* C24: the normalized plate holds only uppercase letters and digits, and
\* normalizing it again returns it unchanged with was_modified false
C24_NormalizedIsFixedPoint ==
    resultados # <<>> =>
        LET n == resultados.primera[2]
        IN /\ \A i \in 1..Len(n) : n[i] \in LetrasMayus \cup Digitos
           /\ resultados.segunda[2] = n
           /\ resultados.segunda[3] = FALSE

\* a plate typed in lowercase with a hyphen was cleaned and got its zero
C24_Witness ==
    /\ resultados # <<>>
    /\ \E i \in 1..Len(argumentos) : argumentos[i] = "-"
    /\ \E i \in 1..Len(argumentos) : argumentos[i] = "b"
    /\ resultados.primera[3]
    /\ resultados.segunda = <<resultados.primera[2], resultados.primera[2], FALSE>>

\* ---------------------------------------------------------------------------
\* The two validators of national ids
\* ---------------------------------------------------------------------------

\* ValidadorEcuatoriano.validar_cedula: es_valida
validar_cedula(c) ==
    IF c = <<>> THEN FALSE
    ELSE LET cedula_clean == SelectSeq(c, LAMBDA d : d \in DigitosDecimales)
         IN IF Len(cedula_clean) # 10 THEN FALSE
            ELSE LET digits == [i \in 1..10 |-> ValorDigito(cedula_clean[i])]
                     province_code == 10 * digits[1] + digits[2]
                     check_digit == (10 - (TotalCedula(digits, 9) % 10)) % 10
                 IN /\ province_code \in PROVINCE_CODES
                    /\ digits[3] < 6
                    /\ check_digit = digits[10]

\* first nine digits: Pichincha, Azuay, Exterior, Santa Elena with third digit
\* 5, province 99, province 00, third digit 7, third digit 6
NueveDigitos ==
    { <<"1", "7", "1", "0", "0", "3", "4", "0", "6">>,
      <<"0", "1", "0", "2", "0", "3", "0", "4", "0">>,
      <<"3", "0", "0", "9", "8", "7", "6", "5", "4">>,
      <<"2", "4", "5", "9", "9", "9", "9", "9", "9">>,
      <<"9", "9", "1", "0", "0", "3", "4", "0", "6">>,
      <<"0", "0", "1", "0", "0", "3", "4", "0", "6">>,
      <<"1", "7", "7", "0", "0", "3", "4", "0", "6">>,
      <<"2", "5", "6", "0", "0", "3", "4", "0", "6">> }

\* the ways an id is typed: ten digits, a hyphen before the last digit, a
\* trailing blank, the fifth digit replaced by a letter, the last digit twice
Formas == {"diez", "guion", "blanco", "letra", "once"}

Tecleada(nueve, ultimo, forma) ==
    CASE forma = "diez" -> nueve \o <<ultimo>>
      [] forma = "guion" -> nueve \o <<"-", ultimo>>
      [] forma = "blanco" -> nueve \o <<ultimo, " ">>
      [] forma = "letra" -> [nueve EXCEPT ![5] = "X"] \o <<ultimo>>
      [] OTHER -> nueve \o <<ultimo, ultimo>>

\* the ids the validators are asked about, the empty one and the nine digits too
CedulasTecleadas ==
    { Tecleada(nueve, ultimo, forma) :
        nueve \in NueveDigitos, ultimo \in DigitosDecimales, forma \in Formas }
    \cup NueveDigitos \cup {<<>>}

InitCedulas ==
    /\ InicioPipeline
    /\ reloj = 1
    /\ InicioClientes
    /\ argumentos \in CedulasTecleadas
    /\ resultados = <<>>

\* both validators are asked about the id
ValidarCedula ==
    /\ resultados = <<>>
    /\ resultados' = [ validate_ecuadorian_id |-> validate_ecuadorian_id(argumentos),
                       validar_cedula |-> validar_cedula(argumentos) ]
    /\ UNCHANGED <<vars_pipeline, reloj, argumentos, vars_clientes>>

NextCedulas == ValidarCedula

SpecCedulas == InitCedulas /\ [][NextCedulas]_vars

\* the ids the documented rule accepts
ReglaCedula(c) ==
    /\ Len(c) = 10
    /\ \A i \in 1..Len(c) : c[i] \in DigitosDecimales
    /\ 10 * ValorDigito(c[1]) + ValorDigito(c[2]) \in PROVINCE_CODES
    /\ ValorDigito(c[3]) < 6
    /\ LET producto(i) == ValorDigito(c[i]) * (IF i % 2 = 1 THEN 2 ELSE 1)
           parcial(i) == IF producto(i) > 9 THEN producto(i) - 9 ELSE producto(i)
           total == parcial(1) + parcial(2) + parcial(3) + parcial(4) + parcial(5)
                    + parcial(6) + parcial(7) + parcial(8) + parcial(9)
       IN ValorDigito(c[10]) = (10 - (total % 10)) % 10

\* C25: an id is accepted exactly when it is ten digits with a known province
\* code, a third digit below 6 and the documented check digit; for the first
\* nine digits of such an id exactly one last digit is accepted
C25_AcceptsExactlyTheRule ==
    resultados # <<>> =>
        /\ resultados.validate_ecuadorian_id <=> ReglaCedula(argumentos)
        /\ resultados.validar_cedula <=> ReglaCedula(argumentos)
        /\ \A nueve \in NueveDigitos :
              (\E d \in DigitosDecimales : ReglaCedula(nueve \o <<d>>)) =>
                 /\ Cardinality({ d \in DigitosDecimales :
                                    validate_ecuadorian_id(nueve \o <<d>>) }) = 1
                 /\ Cardinality({ d \in DigitosDecimales :
                                    validar_cedula(nueve \o <<d>>) }) = 1

\* what holds of validate_ecuadorian_id alone
C25_AppValidatorFollowsTheRule ==
    resultados # <<>> =>
        (resultados.validate_ecuadorian_id <=> ReglaCedula(argumentos))

\* validar_cedula accepted an id of eleven characters
C25_Divergence ==
    /\ resultados # <<>>
    /\ Len(argumentos) = 11
    /\ resultados.validar_cedula
    /\ ~resultados.validate_ecuadorian_id

\* ---------------------------------------------------------------------------
\* The component requests of one session, with their time in flight
\* ---------------------------------------------------------------------------

\* rubros of the vehicle
MaxRubrosEnVuelo == 12

\* the codes of n rubros, the one at sin_codigo (if any) without a code
CodigosEnVuelo(n, sin_codigo) == [i \in 1..n |-> IF i = sin_codigo THEN 0 ELSE 7000 + i]

\* a loop that sends the next request without waiting for the answer
get_sin_esperar(en_vuelo) == TRUE

\* self.session.get(url, timeout=30) returns, or raises, before the loop goes
\* on: the next request is sent when none is in flight
get_bloqueante(en_vuelo) == en_vuelo = {}

InitComponentes ==
    /\ InicioPipeline
    /\ reloj = 1
    /\ InicioLimitador /\ InicioEnvio /\ InicioCache
    /\ \E n \in 0..MaxRubrosEnVuelo : \E sin_codigo \in 0..n :
          /\ argumentos = CodigosEnVuelo(n, sin_codigo)
          /\ hilos = [ i |-> SiguienteConCodigo(CodigosEnVuelo(n, sin_codigo), 1),
                       en_vuelo |-> {}, enviadas |-> 0, en_bucle |-> TRUE ]
    /\ resultados = <<>>

\* the loop of _consultar_componentes_detallados_sri sends the request of the
\* next rubro that has a code
EnviarComponente ==
    /\ hilos.en_bucle
    /\ hilos.i <= Len(argumentos)
    /\ get_bloqueante(hilos.en_vuelo)
    /\ hilos' = [hilos EXCEPT !.en_vuelo = @ \cup {hilos.i},
                              !.enviadas = @ + 1,
                              !.i = SiguienteConCodigo(argumentos, hilos.i + 1)]
    /\ UNCHANGED <<vars_pipeline, reloj, vars_fn, vars_limitador, envio, vars_cache>>

\* the answer arrives: components, or an error that raises out of the loop
RecibirComponente ==
    \E j \in hilos.en_vuelo : \E r \in ComponentesResponses :
        /\ hilos' = [hilos EXCEPT !.en_vuelo = @ \ {j},
                                  !.en_bucle = @ /\ Ok(r)]
        /\ UNCHANGED <<vars_pipeline, reloj, vars_fn, vars_limitador, envio, vars_cache>>

NextComponentes == EnviarComponente \/ RecibirComponente

SpecComponentes == InitComponentes /\ [][NextComponentes]_vars

\* C26: in the component stage of a session at most 10 component requests are
\* in flight at the same time, however many rubros the vehicle has
C26_InFlightBounded ==
    Cardinality(hilos.en_vuelo) <= 10

\* the eleventh component request of a vehicle is in flight
C26_Witness ==
    /\ hilos.enviadas > 10
    /\ hilos.en_vuelo # {}
    /\ Cardinality(hilos.en_vuelo) <= 10

\* ---------------------------------------------------------------------------
\* Consultation threads sharing vehicle_consultant_sri and its rate limiter
\* ---------------------------------------------------------------------------

MaxLlamadasHilo == 2
MaxTicsHilos == 3

\* the threads of two consultations started by POST /api/consultar-vehiculo
Hilos == {"hilo1", "hilo2"}

InitHilos ==
    /\ InicioPipeline
    /\ reloj = 1
    /\ InicioFn
    /\ InicioLimitador /\ InicioEnvio /\ InicioCache
    /\ hilos = [h \in Hilos |-> [pc |-> "libre", endpoint |-> "", pedido |-> 0,
                                 despertar |-> 0, hechas |-> 0]]

TicHilos ==
    /\ reloj < 1 + 500 * MaxTicsHilos
    /\ reloj' = reloj + 500
    /\ UNCHANGED <<vars_pipeline, vars_fn, vars_clientes>>

\* _apply_rate_limiting up to time.sleep: the thread reads the clock and
\* self._last_request_time and works out how long it has to sleep
MedirEspera(h) ==
    /\ hilos[h].pc = "libre"
    /\ hilos[h].hechas < MaxLlamadasHilo
    /\ \E endpoint \in EndpointsSri :
          hilos' = [hilos EXCEPT ![h] =
                       [@ EXCEPT !.pc = "dormido",
                                 !.endpoint = endpoint,
                                 !.pedido = reloj,
                                 !.despertar = reloj +
                                     (IF last_request_time_sri > 0
                                      THEN sleep_time(reloj - last_request_time_sri, IntervaloSri)
                                      ELSE 0)]]
    /\ UNCHANGED <<vars_pipeline, reloj, vars_fn, vars_limitador, envio, vars_cache>>

\* the rest of _apply_rate_limiting: after the sleep the thread writes
\* self._last_request_time = time.time(), and its request starts
MarcarYPedir(h) ==
    /\ hilos[h].pc = "dormido"
    /\ reloj >= hilos[h].despertar
    /\ last_request_time_sri' = reloj
    /\ llamadas' = Append(llamadas, Llamada("sri", hilos[h].endpoint, hilos[h].pedido, reloj))
    /\ hilos' = [hilos EXCEPT ![h] = [@ EXCEPT !.pc = "libre", !.hechas = @ + 1]]
    /\ UNCHANGED <<vars_pipeline, reloj, vars_fn, last_request_time, envio, vars_cache>>

NextHilos ==
    \/ TicHilos
    \/ \E h \in Hilos : MedirEspera(h)
    \/ \E h \in Hilos : MarcarYPedir(h)

SpecHilos == InitHilos /\ [][NextHilos]_vars

\* C27: with several sessions running on threads that share one client, two
\* requests to the same endpoint group still start at least the spacing apart
C27_SpacingAcrossThreads ==
    \A i \in DOMAIN llamadas : \A j \in DOMAIN llamadas :
        (i < j /\ llamadas[i].grupo = llamadas[j].grupo) =>
            llamadas[j].inicio >= llamadas[i].inicio + IntervaloSri

\* two threads measured before either wrote: two requests to one endpoint
\* started at the same instant
C27_Race ==
    /\ Len(llamadas) >= 2
    /\ llamadas[1].grupo = llamadas[2].grupo
    /\ llamadas[1].inicio = llamadas[2].inicio
    /\ llamadas[2].pedido <= llamadas[1].inicio

\* ---------------------------------------------------------------------------
\* A caller polls the status of the session it was handed
\* ---------------------------------------------------------------------------

\* GET /api/estado-consulta/<session_id> by the caller that got the session id
\* in the 202 reply
SondearEstado ==
    /\ pc # "idle"
    /\ http' = get_consultation_status(SessionId)
    /\ UNCHANGED <<active_consultations, pc, placa, vehicle_data, codigo_vehiculo, idx,
                   acumulado, response, requests, cedula, fuera_pipeline>>

\* the start of a consultation, the first steps of its thread, and the polls
NextSondeo ==
    \/ StartConsultation
    \/ Iniciar
    \/ ConsultarPropietario
    \/ ConsultarBase
    \/ MarcarCompletado
    \/ ErrorEnThread
    \/ SondearEstado

SpecSondeo == Init /\ [][NextSondeo]_vars

\* the latest reply is one of GET /api/estado-consulta
EsRespuestaDeEstado == "status" \in DOMAIN http

\* C28: once the session id was handed out, a status poll is never answered
\* 'session not found' before the session has completed
C28_StatusKnownOnceStarted ==
    (pc \notin {"idle", "fin"} /\ EsRespuestaDeEstado) => http.code # 404

\* the id was handed out, the thread has not written its entry yet, and the
\* poll was answered 404
C28_NotFoundBeforeFirstWrite ==
    /\ pc = "thread"
    /\ EsRespuestaDeEstado
    /\ http.code = 404
    /\ ~HaySesion(SessionId)

\* ---------------------------------------------------------------------------
\* The read endpoints, of app copy 2.py and of app.py, on sessions nobody runs
\* ---------------------------------------------------------------------------

MaxTicsLecturas == 3

\* time.sleep(300) of cleanup_session, in seconds
EsperaLimpieza == 300

InitLecturas ==
    /\ pc = "idle"
    /\ placa = <<>>
    /\ cedula = <<>>
    /\ http = <<>>
    /\ vehicle_data = SinDatos
    /\ codigo_vehiculo = 0
    /\ idx = 0
    /\ acumulado = <<>>
    /\ response = <<>>
    /\ requests = <<>>
    /\ reloj = 1
    /\ InicioFn
    /\ InicioLimitador /\ InicioEnvio /\ InicioCache
    /\ hilos = {}
    /\ active_consultations \in
          [SesionesTerminadas ->
              {EntradaCompletado(RegistroTerminado), EntradaError, EntradaIniciando}]

TicLecturas ==
    /\ reloj < 1 + MaxTicsLecturas * ((EsperaLimpieza * 1000) \div 2)
    /\ reloj' = reloj + ((EsperaLimpieza * 1000) \div 2)
    /\ UNCHANGED <<vars_pipeline, vars_fn, vars_clientes>>

\* app.py, GET /api/resultado/<session_id>: the reply
obtener_resultado(sid) ==
    IF ~HaySesion(sid)
    THEN RespuestaResultado(404, FALSE, "Session ID no encontrada", <<>>)
    ELSE IF active_consultations[sid].status # "completado"
    THEN RespuestaResultado(400, FALSE, "Consulta no completada", <<>>)
    ELSE RespuestaResultado(200, TRUE, "", active_consultations[sid].result)

\* app.py, GET /api/resultado/<session_id>: replies and, for a completed
\* session, starts the thread cleanup_session
ObtenerResultado ==
    /\ \E sid \in SesionesPedidas :
          /\ http' = obtener_resultado(sid)
          /\ hilos' = IF obtener_resultado(sid).code = 200
                      THEN hilos \cup {[session_id |-> sid,
                                        despertar |-> reloj + EsperaLimpieza * 1000]}
                      ELSE hilos
    /\ UNCHANGED <<active_consultations, pc, placa, vehicle_data, codigo_vehiculo, idx,
                   acumulado, response, requests, cedula, reloj, vars_fn, vars_limitador,
                   envio, vars_cache>>

\* app.py, cleanup_session after its sleep: the session is deleted
cleanup_session ==
    /\ \E t \in hilos :
          /\ reloj >= t.despertar
          /\ hilos' = hilos \ {t}
          /\ active_consultations' =
                [sid \in DOMAIN active_consultations \ {t.session_id} |->
                    active_consultations[sid]]
    /\ UNCHANGED <<pc, placa, vehicle_data, codigo_vehiculo, idx, acumulado, response,
                   requests, cedula, http, reloj, vars_fn, vars_limitador, envio,
                   vars_cache>>

NextLecturas ==
    \/ TicLecturas
    \/ PollStatus
    \/ PollResult
    \/ ObtenerResultado
    \/ cleanup_session

SpecLecturas == InitLecturas /\ [][NextLecturas]_vars

\* C29: status and result reads, and whatever they start, never change a
\* session's status, progress, message or result, and never add or remove an
\* entry of the session map
C29_ReadsLeaveSessionsAlone ==
    [][active_consultations' = active_consultations]_vars

\* what holds of the handlers themselves: the step that replies changes nothing
C29_HandlersOnlyReply ==
    [][http' # http => active_consultations' = active_consultations]_vars

\* a session whose result was read is gone
C29_RemovedAfterRead ==
    /\ http # <<>>
    /\ http.code = 200
    /\ "vehicle_data" \in DOMAIN http
    /\ \E sid \in SesionesTerminadas : ~HaySesion(sid)

\* ---------------------------------------------------------------------------
\* The vehicle code of BASE and the stages that follow it
\* ---------------------------------------------------------------------------

\* the endpoints of RUBROS, COMPONENTS, PAYMENTS and IACV
EndpointsPosteriores ==
    {"consulta_rubros", "consulta_componente", "consulta_pagos", "detalle_pagos",
     "plan_excepcional"}

\* the positions of the thread in the stages after BASE
EtapasPosteriores ==
    {"rubros", "componentes", "comp_loop", "pagos", "det_loop", "iacv", "analisis"}

\* the requests a step issues
PeticionesNuevas == SubSeq(requests', Len(requests) + 1, Len(requests'))

\* what a step of the session may do to the requests and to the code
C30_Paso ==
    /\ \A i \in DOMAIN PeticionesNuevas :
          /\ PeticionesNuevas[i].api \in EndpointsPosteriores =>
                /\ codigo_vehiculo # 0
                /\ pc \in EtapasPosteriores
          /\ PeticionesNuevas[i].api \in {"consulta_rubros", "plan_excepcional"} =>
                PeticionesNuevas[i].arg = codigo_vehiculo
    /\ pc = "base" =>
          IF Ok(response') /\ Body(response').tieneCodigo
          THEN codigo_vehiculo' = Body(response').codigoVehiculo /\ pc' = "rubros"
          ELSE codigo_vehiculo' = 0 /\ pc' = "completar"
    /\ pc \in EtapasPosteriores => codigo_vehiculo' = codigo_vehiculo
    /\ pc \in {"completar", "fin"} => requests' = requests

\* C30: a request of RUBROS, COMPONENTS, PAYMENTS or IACV is issued only after
\* BASE returned a vehicle code in the session, RUBROS and IACV ask with that
\* code, and after a BASE miss the session issues no request at all
C30_CodeBeforeLaterStages ==
    /\ [](pc \in EtapasPosteriores => codigo_vehiculo # 0)
    /\ [](pc \in {"idle", "thread", "propietario", "base"} =>
             \A i \in DOMAIN requests : requests[i].api \notin EndpointsPosteriores)
    /\ [][C30_Paso]_vars

\* RUBROS and IACV were asked with the code BASE returned
C30_Witness ==
    /\ pc = "analisis"
    /\ codigo_vehiculo # 0
    /\ requests[Len(requests)] = Peticion("plan_excepcional", codigo_vehiculo)
    /\ \E i \in DOMAIN requests : requests[i] = Peticion("consulta_rubros", codigo_vehiculo)

\* BASE missed for both plates and the session stopped asking
C30_WitnessMiss ==
    /\ pc = "completar"
    /\ codigo_vehiculo = 0
    /\ Len(requests) >= 2
    /\ requests[Len(requests)].api = "base_vehiculo"
    /\ requests[Len(requests) - 1].api = "base_vehiculo"

\* ---------------------------------------------------------------------------
\* PASO 2, request by request
\* ---------------------------------------------------------------------------

\* plates of the sessions: some get a zero, some do not, two are typed in lowercase
PlacasBase ==
    { <<"A", "B", "C", "1", "2", "3">>, <<"P", "B", "X", "0", "1", "2">>,
      <<"A", "B", "1", "2", "3">>,
      <<"P", "B", "X", "1", "2", "3", "4">>, <<"A", "B", "C", "0", "1", "2", "3">>,
      <<"X", "A", "0", "0", "1", "2">>,
      <<"a", "b", "c", "-", "1", "2", "3">>, <<"p", "b", "x", "1", "2", "3", "4">>,
      <<"C", "B", "A", "3", "2", "1">>, <<"X", "B", "A", "4", "3", "2", "1">> }

\* the answers of the SRI, with two vehicle codes
BaseResponsesDos ==
    BaseResponses
        \cup { Exito([tieneCodigo |-> TRUE, codigoVehiculo |-> 43, prohibidoEnajenar |-> ""]) }

InitBase ==
    /\ active_consultations = <<>>
    /\ pc = "base"
    /\ placa \in PlacasBase
    /\ cedula = CedulaValida
    /\ http = Respuesta(202, "")
    /\ vehicle_data = VehicleDataSRI(normalize_plate(placa)[1], normalize_plate(placa)[2])
    /\ codigo_vehiculo = 0
    /\ idx = 0
    /\ acumulado = <<>>
    /\ response = <<>>
    /\ requests = <<>>
    /\ reloj = 1
    /\ InicioFn
    /\ InicioClientes

\* base_info = await self._consultar_base_vehiculo_sri(placa_normalizada)
PedirBaseNormalizada ==
    /\ pc = "base"
    /\ requests' = Append(requests, Peticion("base_vehiculo", vehicle_data.placa_normalizada))
    /\ response' \in BaseResponsesDos
    /\ pc' = "base_respondida"
    /\ UNCHANGED <<active_consultations, placa, vehicle_data, codigo_vehiculo, idx, acumulado,
                   cedula, http, fuera_pipeline>>

\* base_info = await self._consultar_base_vehiculo_sri(placa_original)
PedirBaseOriginal ==
    /\ pc = "base_respondida"
    /\ ReintentaBase(vehicle_data, response)
    /\ requests' = Append(requests, Peticion("base_vehiculo", vehicle_data.placa_original))
    /\ response' \in BaseResponsesDos
    /\ pc' = "base_repetida"
    /\ UNCHANGED <<active_consultations, placa, vehicle_data, codigo_vehiculo, idx, acumulado,
                   cedula, http, fuera_pipeline>>

\* the miss returns the record; otherwise the code of base_info is taken
UsarBase ==
    /\ \/ pc = "base_respondida" /\ ~ReintentaBase(vehicle_data, response)
       \/ pc = "base_repetida"
    /\ IF BaseEncontrada(response)
       THEN /\ vehicle_data' = ActualizarInfoBasica(vehicle_data, Body(response))
            /\ codigo_vehiculo' = Body(response).codigoVehiculo
            /\ pc' = "rubros"
       ELSE /\ vehicle_data' = BaseNoEncontrada(vehicle_data)
            /\ codigo_vehiculo' = codigo_vehiculo
            /\ pc' = "completar"
    /\ UNCHANGED <<active_consultations, placa, idx, acumulado, response, requests,
                   cedula, http, fuera_pipeline>>

NextBase == PedirBaseNormalizada \/ PedirBaseOriginal \/ UsarBase

SpecBase == InitBase /\ [][NextBase]_vars

\* the latest answer carries a vehicle code
ConCodigo == Ok(response) /\ Body(response).tieneCodigo

\* what a step of PASO 2 may do
C31_Paso ==
    /\ (Len(requests) = 1 /\ requests' # requests) =>
          /\ ~ConCodigo
          /\ normalize_plate(placa)[1] # normalize_plate(placa)[2]
    /\ (pc' = "rubros" /\ pc # "rubros") =>
          /\ ConCodigo
          /\ codigo_vehiculo' = Body(response).codigoVehiculo
          /\ requests' = requests
    /\ (pc' = "completar" /\ pc # "completar") =>
          /\ ~ConCodigo
          /\ Len(requests) = 2 \/ normalize_plate(placa)[1] = normalize_plate(placa)[2]

\* C31: BASE asks first with the normalized plate, and with the original plate
\* only after an answer without a vehicle code and when the two plates
\* differ; it makes at most two requests, and the code it uses is that of the
\* first answer that carries one
C31_BaseFallback ==
    /\ [](Len(requests) <= 2)
    /\ [](Len(requests) >= 1 =>
             requests[1] = Peticion("base_vehiculo", normalize_plate(placa)[2]))
    /\ [](Len(requests) = 2 =>
             requests[2] = Peticion("base_vehiculo", normalize_plate(placa)[1]))
    /\ [][C31_Paso]_vars

\* the normalized plate missed and the original plate gave the code in use
C31_Witness ==
    /\ pc = "rubros"
    /\ Len(requests) = 2
    /\ requests[1].arg # requests[2].arg
    /\ codigo_vehiculo = Body(response).codigoVehiculo
    /\ codigo_vehiculo # 0

\* ---------------------------------------------------------------------------
\* PASO 1, request by request
\* ---------------------------------------------------------------------------

\* the answers of the owner APIs, with a second owner and a propietario
\* object without 'nombre'
OwnerPrimaryResponsesDos == OwnerPrimaryResponses \cup { Exito([name |-> "MARIA LOPEZ"]) }
OwnerBackupResponsesDos ==
    OwnerBackupResponses \cup { Exito([propietario |-> TRUE, nombre |-> ""]) }

InitPropietario ==
    /\ active_consultations = <<>>
    /\ pc = "propietario"
    /\ placa \in PlacasBase
    /\ cedula = CedulaValida
    /\ http = Respuesta(202, "")
    /\ vehicle_data = VehicleDataSRI(normalize_plate(placa)[1], normalize_plate(placa)[2])
    /\ codigo_vehiculo = 0
    /\ idx = 0
    /\ acumulado = <<>>
    /\ response = <<>>
    /\ requests = <<>>
    /\ reloj = 1
    /\ InicioFn
    /\ InicioClientes

\* self.session.post(OWNER_APIS['primary'], ...)
PedirPropietarioPrimario ==
    /\ pc = "propietario"
    /\ requests' = Append(requests, Peticion("owner_primary", vehicle_data.placa_normalizada))
    /\ response' \in OwnerPrimaryResponsesDos
    /\ pc' = "propietario_respondido"
    /\ UNCHANGED <<active_consultations, placa, vehicle_data, codigo_vehiculo, idx, acumulado,
                   cedula, http, fuera_pipeline>>

\* the primary API named the owner: return
TomarPropietarioPrimario ==
    /\ pc = "propietario_respondido"
    /\ Len(PeticionesPropietario(vehicle_data.placa_normalizada, response)) = 1
    /\ vehicle_data' = ConsultarPropietarioVehiculo(vehicle_data, response, Falla)
    /\ pc' = "base"
    /\ UNCHANGED <<active_consultations, placa, codigo_vehiculo, idx, acumulado, response,
                   requests, cedula, http, fuera_pipeline>>

\* self.session.get(OWNER_APIS['backup'] ...) and the end of the function
PedirPropietarioRespaldo ==
    /\ pc = "propietario_respondido"
    /\ Len(PeticionesPropietario(vehicle_data.placa_normalizada, response)) = 2
    /\ requests' = Append(requests, Peticion("owner_backup", vehicle_data.placa_normalizada))
    /\ \E r2 \in OwnerBackupResponsesDos :
          /\ response' = r2
          /\ vehicle_data' = ConsultarPropietarioVehiculo(vehicle_data, response, r2)
    /\ pc' = "base"
    /\ UNCHANGED <<active_consultations, placa, codigo_vehiculo, idx, acumulado,
                   cedula, http, fuera_pipeline>>

NextPropietario ==
    \/ PedirPropietarioPrimario
    \/ TomarPropietarioPrimario
    \/ PedirPropietarioRespaldo

SpecPropietario == InitPropietario /\ [][NextPropietario]_vars

\* the answer names an owner: a body with data.name, or with propietario
NombraPropietario(r) ==
    /\ r # <<>>
    /\ IF "name" \in DOMAIN r[1] THEN r[1].name # "" ELSE r[1].propietario

\* what a step of PASO 1 may do
C32_Paso ==
    /\ requests' # requests =>
          /\ Len(requests') = Len(requests) + 1
          /\ requests'[Len(requests')].api =
                (IF requests = <<>> THEN "owner_primary" ELSE "owner_backup")
          /\ requests # <<>> => ~NombraPropietario(response)
    /\ pc' = "base" =>
          /\ vehicle_data'.propietario_encontrado = NombraPropietario(response')
          /\ (requests' = requests) = NombraPropietario(response)

\* C32: OWNER asks the primary endpoint first and the backup endpoint only
\* when the primary named no owner; when neither names one the record says
\* the owner was not found; whatever the answers, the session goes on to BASE
C32_OwnerFallback ==
    /\ [][C32_Paso]_vars
    /\ [](pc # "base" => ENABLED NextPropietario)
    /\ [](pc = "base" => Len(requests) \in {1, 2} /\ requests[1].api = "owner_primary")

\* both endpoints were asked, neither named an owner, and BASE is next
C32_Witness ==
    /\ pc = "base"
    /\ Len(requests) = 2
    /\ requests[2].api = "owner_backup"
    /\ ~vehicle_data.propietario_encontrado

\* ---------------------------------------------------------------------------
\* The payment-detail requests of a session
\* ---------------------------------------------------------------------------

\* the receipt codes the session asked details for, in the order of the requests
DetallesPedidos ==
    LET pedidos == SelectSeq(requests, LAMBDA q : q.api = "detalle_pagos")
    IN [i \in DOMAIN pedidos |-> pedidos[i].arg]

\* the receipt codes of the first 50 payments of the history, in list order
CodigosPrimerosPagos ==
    LET h == vehicle_data.historial_pagos
        primeros == SubSeq(h, 1, Min(Len(h), LimitePagos))
    IN SelectSeq([i \in DOMAIN primeros |-> primeros[i].codigoRecaudacion],
                 LAMBDA c : c # 0)

\* C33: the payment-detail requests are those of the first 50 payments of the
\* history, in list order, so at most 50; when the loop is over each of them
\* was made, whether or not an earlier one failed
C33_DetailsForFirstFifty ==
    /\ Len(DetallesPedidos) <= LimitePagos
    /\ pc = "det_loop" =>
          /\ Len(DetallesPedidos) <= Len(CodigosPrimerosPagos)
          /\ DetallesPedidos = SubSeq(CodigosPrimerosPagos, 1, Len(DetallesPedidos))
    /\ pc \in {"iacv", "analisis", "completar"} => DetallesPedidos = CodigosPrimerosPagos

\* a history of more than 50 payments: the first detail request failed, the
\* one of the 50th payment was still made, none for the 51st
C33_Witness ==
    /\ pc = "iacv"
    /\ Len(vehicle_data.historial_pagos) > LimitePagos
    /\ vehicle_data.historial_pagos[LimitePagos + 1].codigoRecaudacion # 0
    /\ Len(DetallesPedidos) = 2
    /\ Len(vehicle_data.detalles_pagos) = 1
    /\ vehicle_data.detalles_pagos[1].codigoRecaudacion = DetallesPedidos[2]

\* ---------------------------------------------------------------------------
\* The score against its table of penalties and bonuses
\* ---------------------------------------------------------------------------

\* the score of the table, for the totals of a and the debt deuda
PuntuacionDeTabla(a, deuda) ==
    LET porDeuda == IF deuda > 2000 THEN 50 ELSE IF deuda > 1000 THEN 40
                    ELSE IF deuda > 500 THEN 25 ELSE IF deuda > 100 THEN 15
                    ELSE IF deuda > 0 THEN 5 ELSE 0
        porMultas == IF a.multas > 100 THEN 20 ELSE IF a.multas > 0 THEN 10 ELSE 0
        porIntereses == IF a.intereses > 50 THEN 15 ELSE IF a.intereses > 0 THEN 5 ELSE 0
        porIacv == IF a.vencidas > 100 THEN 25 ELSE IF a.vencidas > 50 THEN 20
                   ELSE IF a.vencidas > 0 THEN 10 ELSE 0
        porProhibicion == IF a.prohibido = "SI" THEN 30 ELSE 0
        porPagos == IF a.pagado > 2000 THEN 10 ELSE IF a.pagado > 1000 THEN 5 ELSE 0
        porUltimoAno == IF a.ultimo > 0 THEN 5 ELSE 0
        suma == 100 - porDeuda - porMultas - porIntereses - porIacv
                    - porProhibicion + porPagos + porUltimoAno
    IN Escala * Max(0, Min(100, suma))

\* C34: the score is 100 minus the penalties of debt, fines, interest, overdue
\* IACV and prohibition, plus the payment bonuses, clamped to [0,100]; no
\* other input changes it
C34_ScoreIsTheTable ==
    resultados # <<>> =>
       /\ resultados[1] = PuntuacionDeTabla(argumentos, argumentos.deuda1)
       /\ resultados[2] = PuntuacionDeTabla(argumentos, argumentos.deuda2)

\* without a negative prescriptions total the score is the one of the table
C34_TableWithoutPrescriptions ==
    (resultados # <<>> /\ argumentos.prescripciones >= 0) =>
       /\ resultados[1] = PuntuacionDeTabla(argumentos, argumentos.deuda1)
       /\ resultados[2] = PuntuacionDeTabla(argumentos, argumentos.deuda2)

\* a prohibition and a prescriptions total of -2000: 80 where the table says 70
C34_PrescriptionBonus ==
    /\ resultados # <<>>
    /\ argumentos.prescripciones < 0
    /\ argumentos.prohibido = "SI"
    /\ resultados[1] > PuntuacionDeTabla(argumentos, argumentos.deuda1)

\* ---------------------------------------------------------------------------
\* The legal status, the risk and the recommendation of an analysed record
\* ---------------------------------------------------------------------------

InitEstado ==
    /\ InicioPipeline
    /\ reloj = 1
    /\ argumentos \in {a \in ArgumentosPuntuacion : a.deuda1 = a.deuda2}
    /\ resultados = <<>>
    /\ InicioClientes

\* the record is analysed
AnalizarRegistro ==
    /\ resultados = <<>>
    /\ resultados' =
          <<RealizarAnalisisConsolidado(RegistroPuntuacion(argumentos, argumentos.deuda1))>>
    /\ UNCHANGED <<vars_pipeline, reloj, argumentos, vars_clientes>>

NextEstado == AnalizarRegistro

SpecEstado == InitEstado /\ [][NextEstado]_vars

\* the tier of a score: 1 from 95, 2 from 80, 3 from 60, 4 from 40, else 5
TramoDePuntuacion(p) ==
    IF p >= 95 * Escala THEN 1
    ELSE IF p >= 80 * Escala THEN 2
    ELSE IF p >= 60 * Escala THEN 3
    ELSE IF p >= 40 * Escala THEN 4
    ELSE 5

EstadosPorTramo ==
    <<"EXCELENTE - SIN DEUDAS", "BUENO - DEUDAS MENORES", "REGULAR - DEUDAS MODERADAS",
      "MALO - DEUDAS ALTAS", "CRÍTICO - MÚLTIPLES DEUDAS">>

RiesgosPorTramo == <<"MUY BAJO", "BAJO", "MODERADO", "ALTO", "CRÍTICO">>

RecomendacionesPorTramo ==
    <<"Vehículo con situación tributaria óptima para transferencia",
      "Regularizar deudas menores antes de transferencia",
      "Negociar descuento por deudas pendientes en precio final",
      "Verificar costos de regularización antes de compra",
      "NO RECOMENDADO - Evaluar otras alternativas">>

\* C35: the score falls in one of five tiers by the thresholds 95, 80, 60 and
\* 40, and the legal status, the risk and the recommendation of the record are
\* the ones of that tier
C35_OneTierForAll ==
    resultados # <<>> =>
       LET r == resultados[1]
           t == TramoDePuntuacion(r.puntuacion_sri)
       IN /\ r.estado_legal_sri = EstadosPorTramo[t]
          /\ r.riesgo_tributario = RiesgosPorTramo[t]
          /\ r.recomendacion_tributaria = RecomendacionesPorTramo[t]

\* a score of exactly 95 is of the first tier, one of exactly 40 of the fourth
C35_Witness ==
    /\ resultados # <<>>
    /\ resultados[1].puntuacion_sri = 95 * Escala
    /\ resultados[1].riesgo_tributario = "MUY BAJO"

C35_WitnessFourth ==
    /\ resultados # <<>>
    /\ resultados[1].puntuacion_sri = 40 * Escala
    /\ resultados[1].estado_legal_sri = "MALO - DEUDAS ALTAS"

\* ---------------------------------------------------------------------------
\* The two normalizers of plates
\* ---------------------------------------------------------------------------

InitNormalizadores ==
    /\ InicioPipeline
    /\ reloj = 1
    /\ InicioClientes
    /\ argumentos \in PlacasTecleadas
    /\ resultados = <<>>

\* the plate is given to PlateValidator.normalize_plate and to
\* ValidadorEcuatoriano.validar_placa
NormalizarPlaca ==
    /\ resultados = <<>>
    /\ resultados' = [ app |-> normalize_plate(argumentos),
                       models |-> validar_placa(argumentos) ]
    /\ UNCHANGED <<vars_pipeline, reloj, argumentos, vars_clientes>>

NextNormalizadores == NormalizarPlaca

SpecNormalizadores == InitNormalizadores /\ [][NextNormalizadores]_vars

\* the plate and the flag of the rule: letters and digits only, in uppercase,
\* and a 0 before the digits of 2 or 3 letters followed by exactly 3 digits
ReglaPlaca(p) ==
    LET limpia == SelectSeq([i \in DOMAIN p |-> Mayus(p[i])],
                            LAMBDA c : c \in LetrasMayus \cup Digitos)
        letras == Len(limpia) - 3
        encaja == /\ letras \in {2, 3}
                  /\ \A i \in 1..letras : limpia[i] \in LetrasMayus
                  /\ \A i \in (letras + 1)..Len(limpia) : limpia[i] \in Digitos
    IN IF encaja
       THEN <<SubSeq(limpia, 1, letras) \o <<"0">> \o SubSeq(limpia, letras + 1, Len(limpia)), TRUE>>
       ELSE <<limpia, FALSE>>

\* C36: the plate returned is the cleaned, uppercased input, with a 0 before
\* the digits and was_modified true when the cleaned input is 2 or 3 letters
\* followed by exactly 3 digits, and unchanged with was_modified false otherwise
C36_NormalizersFollowTheRule ==
    resultados # <<>> =>
        /\ resultados.app[2] = ReglaPlaca(argumentos)[1]
        /\ resultados.app[3] = ReglaPlaca(argumentos)[2]
        /\ resultados.models.placa_normalizada = ReglaPlaca(argumentos)[1]

\* PlateValidator.normalize_plate follows the rule
C36_AppNormalizerFollowsTheRule ==
    resultados # <<>> =>
        /\ resultados.app[1] = PlacaClean(argumentos)
        /\ resultados.app[2] = ReglaPlaca(argumentos)[1]
        /\ resultados.app[3] = ReglaPlaca(argumentos)[2]

\* two letters and three digits: normalize_plate puts the 0,
\* validar_placa returns no plate at all
C36_Divergence ==
    /\ resultados # <<>>
    /\ Len(argumentos) = 5
    /\ resultados.app[3]
    /\ resultados.app[2] = ReglaPlaca(argumentos)[1]
    /\ ~resultados.models.es_valida
    /\ resultados.models.placa_normalizada = <<>>

\* ---------------------------------------------------------------------------
\* PlateValidator.normalize_plate with its memo, call after call
\* ---------------------------------------------------------------------------

\* the memo is cleared when it holds more than TechoMemo entries (1000 in
\* PlateValidator)
TechoMemo == 2

\* str.strip(): the whitespace at both ends removed
Strip(s) ==
    LET llenos == { i \in DOMAIN s : s[i] # " " }
    IN IF llenos = {} THEN <<>>
       ELSE SubSeq(s, CHOOSE i \in llenos : \A j \in llenos : i <= j,
                      CHOOSE i \in llenos : \A j \in llenos : i >= j)

\* a key of the first two characters of the plate only
clave_dos_caracteres(p) == SubSeq(Upper(p), 1, Min(2, Len(p)))

\* cache_key = placa.upper().strip()
cache_key(p) == Strip(Upper(p))

\* app copy.py, PlateValidator.normalize_plate: no memo
normalize_plate_sin_memo(p) ==
    IF p = <<>> THEN <<p, p, FALSE>>
    ELSE LET placa_clean == SelectSeq(Upper(p), LAMBDA c : c \in LetrasMayus \cup Digitos)
             letras == MatchTresDigitos(placa_clean)
         IN IF letras > 0
            THEN <<placa_clean,
                   SubSeq(placa_clean, 1, letras) \o <<"0">>
                       \o SubSeq(placa_clean, letras + 1, Len(placa_clean)),
                   TRUE>>
            ELSE <<placa_clean, placa_clean, FALSE>>

\* app copy 2.py, PlateValidator.normalize_plate with the memo: what it
\* returns, whether the memo answered, and the memo it leaves
normalize_plate_memo(memo, p, techo) ==
    IF p = <<>> THEN [result |-> <<p, p, FALSE>>, acierto |-> FALSE, memo |-> memo]
    ELSE IF cache_key(p) \in DOMAIN memo
    THEN [result |-> memo[cache_key(p)], acierto |-> TRUE, memo |-> memo]
    ELSE LET result == normalize_plate(p)
             puesto == [k \in DOMAIN memo \cup {cache_key(p)} |->
                           IF k = cache_key(p) THEN result ELSE memo[k]]
         IN [result |-> result, acierto |-> FALSE,
             memo |-> IF Cardinality(DOMAIN puesto) > techo THEN <<>> ELSE puesto]

\* the plates of the calls: the same plate typed in several ways, plates with
\* and without the three digits, an empty one and one of spaces
PlacasMemo ==
    { <<"A", "B", "1", "2", "3">>, <<"a", "b", "1", "2", "3">>,
      <<" ", "a", "b", "1", "2", "3">>, <<"a", "B", "1", "2", "3", " ">>,
      <<"A", "B", "-", "1", "2", "3">>, <<"a", "b", "-", "1", "2", "3">>,
      <<"A", "B", "C", "1", "2", "3">>, <<"a", "b", "c", "1", "2", "3">>,
      <<"P", "B", "X", "1", "2", "3", "4">>, <<"A", "1">>, <<" ">>, <<>> }

InitMemo ==
    /\ InicioPipeline
    /\ reloj = 1
    /\ InicioFn
    /\ InicioClientes

\* one call of normalize_plate; the plate is also given to the function
\* without memo
NormalizarConMemo ==
    \E p \in PlacasMemo :
        LET llamada == normalize_plate_memo(_validation_cache, p, TechoMemo)
        IN /\ argumentos' = p
           /\ resultados' = [ memo |-> llamada.result, acierto |-> llamada.acierto,
                              directo |-> normalize_plate_sin_memo(p) ]
           /\ _validation_cache' = llamada.memo
           /\ UNCHANGED <<vars_pipeline, reloj, vars_limitador, envio, cache, access_times,
                          ultimo_set, lectura, hilos>>

NextMemo == NormalizarConMemo

SpecMemo == InitMemo /\ [][NextMemo]_vars

\* C37: whatever calls came before, and whether or not the memo was cleared,
\* normalize_plate with the memo returns what the function without memo
\* returns for the same plate
C37_MemoIsTransparent ==
    resultados # <<>> => resultados.memo = resultados.directo

\* the memo answered for a plate typed in another way than the one stored
C37_Witness ==
    /\ resultados # <<>>
    /\ resultados.acierto
    /\ resultados.memo[3]
    /\ resultados.memo = resultados.directo
    /\ argumentos # cache_key(argumentos)

\* the call that passed the ceiling: the memo was cleared
C37_WitnessCleared ==
    /\ resultados # <<>>
    /\ argumentos # <<>>
    /\ ~resultados.acierto
    /\ _validation_cache = <<>>

\* ---------------------------------------------------------------------------
\* The size of the cache and its access times
\* ---------------------------------------------------------------------------

\* C38: after any sequence of get and set the cache holds at most max_entries
\* entries, and the keys with an access time are the keys stored
C38_BoundedAndAligned ==
    /\ Cardinality(DOMAIN cache) <= max_entries
    /\ DOMAIN access_times = DOMAIN cache

\* a set into the full cache: the cache is full again and holds the key of
\* the set next to an entry stored before it
C38_Witness ==
    /\ Cardinality(DOMAIN cache) = max_entries
    /\ DOMAIN access_times = DOMAIN cache
    /\ ultimo_set # <<>>
    /\ ultimo_set.t = reloj
    /\ ultimo_set.key \in DOMAIN cache
    /\ \E k \in DOMAIN cache : cache[k].timestamp < reloj /\ Vigente(cache[k], reloj)

\* ---------------------------------------------------------------------------
\* A set for a key that is already stored
\* ---------------------------------------------------------------------------

\* a step of Set for a key the cache holds
SetDeClaveGuardada ==
    /\ reloj' = reloj
    /\ lectura' = <<>>
    /\ ultimo_set' # <<>>
    /\ ultimo_set'.t = reloj
    /\ ultimo_set'.key \in DOMAIN cache

\* C39: a set for a key that is already stored removes no other unexpired
\* entry and leaves each of them as it was, also when the cache is full
C39_Paso ==
    SetDeClaveGuardada =>
        \A k \in DOMAIN cache \ {ultimo_set'.key} :
            Vigente(cache[k], reloj) =>
                /\ k \in DOMAIN cache'
                /\ cache'[k] = cache[k]
                /\ access_times'[k] = access_times[k]

C39_OverwriteKeepsOthers == [][C39_Paso]_vars

\* below its capacity the cache keeps every other entry
C39_PasoConSitio ==
    (SetDeClaveGuardada /\ Cardinality(DOMAIN cache) < max_entries) =>
        \A k \in DOMAIN cache \ {ultimo_set'.key} :
            /\ k \in DOMAIN cache'
            /\ cache'[k] = cache[k]
            /\ access_times'[k] = access_times[k]

C39_OverwriteBelowCapacity == [][C39_PasoConSitio]_vars

\* ---------------------------------------------------------------------------
\* The estimated due date of an IACV cuota
\* ---------------------------------------------------------------------------

MaxNumeroCuota == 12

\* periodoFiscal: "2023", "2024", "2023-2024", "2024-2025", as the pieces
\* split('-') gives
PeriodosFiscales == { <<2023>>, <<2024>>, <<2023, 2024>>, <<2024, 2025>> }

\* numeroCuota: "Cuota n", "n" without the word Cuota, and "Cuota x", whose
\* number int() does not read
NumerosDeCuota ==
    { [con_palabra |-> TRUE, legible |-> TRUE, numero |-> n] : n \in 1..MaxNumeroCuota }
        \cup { [con_palabra |-> FALSE, legible |-> TRUE, numero |-> n] : n \in 1..MaxNumeroCuota }
        \cup { [con_palabra |-> TRUE, legible |-> FALSE, numero |-> 0] }

\* _estimar_fecha_vencimiento_iacv: the day, month and year of "31/MM/YYYY"
_estimar_fecha_vencimiento_iacv(periodo_fiscal, numero_cuota) ==
    LET ano_inicio == periodo_fiscal[1]
        cuota_num == IF numero_cuota.con_palabra /\ numero_cuota.legible
                     THEN numero_cuota.numero
                     ELSE 1
        mes_vencimiento == (cuota_num - 1) * 3 + 3
    IN IF mes_vencimiento > 12
       THEN [dia |-> 31, mes |-> ((mes_vencimiento - 1) % 12) + 1,
             ano |-> ano_inicio + ((mes_vencimiento - 1) \div 12)]
       ELSE [dia |-> 31, mes |-> mes_vencimiento, ano |-> ano_inicio]

InitFechas ==
    /\ InicioPipeline
    /\ reloj = 1
    /\ InicioClientes
    /\ argumentos \in [periodoFiscal : PeriodosFiscales, numeroCuota : NumerosDeCuota]
    /\ resultados = <<>>

\* _consultar_plan_excepcional_iacv_sri gives the cuota its estimated due date
EstimarFecha ==
    /\ resultados = <<>>
    /\ resultados' = <<_estimar_fecha_vencimiento_iacv(argumentos.periodoFiscal,
                                                       argumentos.numeroCuota)>>
    /\ UNCHANGED <<vars_pipeline, reloj, argumentos, vars_clientes>>

NextFechas == EstimarFecha

SpecFechas == InitFechas /\ [][NextFechas]_vars

\* the days of a month of the calendar
DiasDelMes(mes, ano) ==
    IF mes = 2
    THEN IF (ano % 4 = 0 /\ ano % 100 # 0) \/ ano % 400 = 0 THEN 29 ELSE 28
    ELSE IF mes \in {4, 6, 9, 11} THEN 30 ELSE 31

\* the cuota has a number n >= 1 that is read
CuotaNumerada ==
    /\ argumentos.numeroCuota.con_palabra
    /\ argumentos.numeroCuota.legible
    /\ argumentos.numeroCuota.numero >= 1

\* C40: for a fiscal period whose start year parses and a cuota number
\* n >= 1, the estimated due date is a date of the calendar: a month of
\* 1..12 and a day that month has
C40_DueDateExists ==
    (resultados # <<>> /\ CuotaNumerada) =>
        /\ resultados[1].mes \in 1..12
        /\ resultados[1].dia \in 1..DiasDelMes(resultados[1].mes, resultados[1].ano)

\* the month and the year are the ones of the 3n-th month from the start year
C40_MonthAndYearRoll ==
    (resultados # <<>> /\ CuotaNumerada) =>
        /\ resultados[1].mes \in 1..12
        /\ 12 * (resultados[1].ano - argumentos.periodoFiscal[1]) + resultados[1].mes
              = 3 * argumentos.numeroCuota.numero

\* cuota 2 of 2024: the 31st of June
C40_ThirtyFirstOfJune ==
    /\ resultados # <<>>
    /\ CuotaNumerada
    /\ argumentos.numeroCuota.numero = 2
    /\ resultados[1] = [dia |-> 31, mes |-> 6, ano |-> 2024]

====
